---- MODULE Spec2Model ----
(***************************************************************************)
(* Verification model of the Kairos-BE core: the global fetch rate gate,   *)
(* the DynamoDB repository and quote service, symbol sharding, the CN sync *)
(* planner, the index-quote sync handler and its source chain, the CN      *)
(* daily-quote fetcher, the company sync orchestration, the backtest       *)
(* engine with its universe resolution, run control flow and price         *)
(* resolution, the company score index, the price attributes of the stored *)
(* quote items, the yfinance fetch retry loop, the pagination of the       *)
(* repository queries, the Swing Falcon universe selector, the CN          *)
(* quote-sync worker pool, and the symbol normalisation of the quote       *)
(* service.                                                                *)
(*                                                                         *)
(* Each subsystem has its own variables, initial predicate and next-state  *)
(* relation (SpecGate, SpecStore, SpecShard, SpecPlan, SpecIdx, SpecChain, *)
(* SpecHist, SpecComp, SpecBt, SpecUni, SpecScore, SpecRun, SpecQuote,     *)
(* SpecMark, SpecYf, SpecPage, SpecSel, SpecCn, SpecSym); the variables of *)
(* the other subsystems stay at their idle values.                         *)
(***************************************************************************)
EXTENDS Integers, Sequences, FiniteSets, TLC

VARIABLES
    \* ---- global fetch gate (financials.py) ----
    clock,          \* time.time(), in ticks
    last_fetch_ts,  \* module global _last_fetch_ts
    rate_lock,      \* thread holding _rate_lock, 0 when free
    gpc,            \* per-thread position inside _global_fetch_gate
    gnow,           \* per-thread local `now`
    gwake,          \* per-thread instant at which time.sleep(wait) may return
    gcalls,         \* per-thread number of calls started
    stamps,         \* history: values assigned to _last_fetch_ts, in order
    returns,        \* history: <<thread, stamp, instant of return>>, in order
    \* ---- repository and quote service (repository.py, StockData.py) ----
    table,          \* the StockData table: a set of items, at most one per (pk, sk)
    throttle,       \* transient rejections the store has still to issue
    lastOp,         \* the last service call: its arguments and its outcome
    nUpserts,       \* number of upsert_quotes_df calls made so far
    \* ---- sharding (financials.py, sync_cn_stocks.py) ----
    shardIn,        \* symbol, SHARD_TOTAL and SHARD_INDEX of a run
    shardDone,      \* entry points that have filtered the symbol
    shardOut,       \* per entry point: is the symbol kept by this shard
    \* ---- CN sync planner (sync.py) ----
    planIn,         \* arguments of a planner call and the keywords the caller passes
    planOut,        \* outcome of the call
    \* ---- index-quote sync handler (sync_index_quotes.py) ----
    idxIn,          \* catalog symbols, calendar, upstream and stored latest dates of a run
    idxOut,         \* the handler's response and the upserts it made
    \* ---- index quote source chain (index/quotes.py) ----
    chainIn,        \* symbol, INDEX_QUOTE_SOURCES and what each fetcher returns
    chain,          \* position of _fetch_index_quotes_with_source: pc, resolved order, loop index, fetchers called
    chainOut,       \* the frame build_quotes_df returns
    \* ---- CN daily quotes collector (stock/daily_quotes.py) ----
    histIn,         \* symbol, date range and what each upstream call of a fetch returns
    histSt,         \* position of _fetch_cn_stock_daily_ak, upstream calls made, and the outcome
    \* ---- company sync orchestration (financials.py) ----
    compIn,         \* catalog rows, the rows whose processing raises, and max_concurrency
    compSt,         \* position of sync_companies_for_shard: loop index, pool tasks, ok_count, errors_sample
    compOut,        \* the dictionary sync_companies_for_shard returns
    \* ---- backtest engine (backtest/engine.py) ----
    btIn,           \* configuration, price panel and strategy of a backtest run
    bt,             \* position of BacktestEngine.run: pc, date index, portfolio, equity curve, trades, turnover
    btOut,          \* the BacktestResult
    \* ---- universe resolution (backtest/engine.py) ----
    uniIn,          \* the universe argument of run, whether a universe provider is configured, and what it returns
    uniSt,          \* position of run before the event loop: resolved universe, provider calls, price loads
    uniOut,         \* how the preamble of run ended
    \* ---- company scores (financials.py, Company.py) ----
    coTable,        \* items of the Company table
    coLast,         \* the latest call on pad_score or the Company repository, with its arguments and result
    \* ---- BacktestEngine.run control flow (engine.py) ----
    runIn,          \* a run's price index, frequency and injected failure
    runSt,          \* position of run(), its callbacks so far, schedule and equity curve
    runOut,         \* what run() returned or raised
    \* ---- quote items of StockData, IndexData, MarketData ----
    qIn,            \* a row of the quotes frame handed to upsert_quotes_df
    qOut,           \* the service called and the items it wrote
    \* ---- Portfolio.mark_to_market price resolution (engine.py) ----
    mk,             \* a portfolio holding one position, the snapshot it was last marked with, the portfolio before
    \* ---- _fetch_yf_symbol retry loop (index/quotes.py) ----
    yf,             \* position inside _fetch_yf_symbol, attempt number, outcome of each attempt
    yfOut,          \* what _fetch_yf_symbol returned or raised
    \* ---- pagination of query_by_symbol and query_by_market_status (repository.py) ----
    pgIn,           \* the query: which helper, how many items match, the limit
    pg,             \* position inside the pagination loop, items collected, continuation key
    pgOut,          \* the items the query returned
    \* ---- Swing Falcon universe selector (universe/swing_falcon.py) ----
    selIn,          \* fundamentals row of one candidate, its latest close, the selector's filters
    selOut,         \* the (passed, detail) pair _evaluate_row returned
    \* ---- CN quote-sync workers (sync_cn_stocks.py) ----
    cn,             \* the CN quote-sync thread pool: clock, plans not yet taken, each worker's position and wake-up instant
    cnFetches,      \* history: <<worker, instant>> of every upstream fetch started
    \* ---- symbol normalisation of the quote write and read paths (StockData.py) ----
    symIn,          \* the symbol string S a caller uses for writing and reading
    symSt,          \* the table after the writes under S, and the number of writes
    symOut          \* results of get_latest_quote_date(S) and get_quotes_df(S), each with the table it was read from

gateVars == <<clock, last_fetch_ts, rate_lock, gpc, gnow, gwake, gcalls, stamps, returns>>
storeVars == <<table, throttle, lastOp, nUpserts>>

shardVars == <<shardIn, shardDone, shardOut>>
planVars == <<planIn, planOut>>
idxVars == <<idxIn, idxOut>>
chainVars == <<chainIn, chain, chainOut>>
histVars == <<histIn, histSt>>
compVars == <<compIn, compSt, compOut>>
btVars == <<btIn, bt, btOut>>
uniVars == <<uniIn, uniSt, uniOut>>
scoreVars == <<coTable, coLast>>
runVars == <<runIn, runSt, runOut>>
quoteVars == <<qIn, qOut>>
markVars == <<mk>>
yfVars == <<yf, yfOut>>
pageVars == <<pgIn, pg, pgOut>>
selVars == <<selIn, selOut>>
cnVars == <<cn, cnFetches>>
symVars == <<symIn, symSt, symOut>>

vars == <<gateVars, storeVars, shardVars, planVars, idxVars, chainVars, histVars, compVars, btVars, uniVars, scoreVars, runVars, quoteVars, markVars, yfVars, pageVars, selVars, cnVars, symVars>>

\* the variables outside each subsystem
notGate == <<storeVars, shardVars, planVars, idxVars, chainVars, histVars, compVars, btVars, uniVars, scoreVars, runVars, quoteVars, markVars, yfVars, pageVars, selVars, cnVars, symVars>>
notStore == <<gateVars, shardVars, planVars, idxVars, chainVars, histVars, compVars, btVars, uniVars, scoreVars, runVars, quoteVars, markVars, yfVars, pageVars, selVars, cnVars, symVars>>
notShard == <<gateVars, storeVars, planVars, idxVars, chainVars, histVars, compVars, btVars, uniVars, scoreVars, runVars, quoteVars, markVars, yfVars, pageVars, selVars, cnVars, symVars>>
notPlan == <<gateVars, storeVars, shardVars, idxVars, chainVars, histVars, compVars, btVars, uniVars, scoreVars, runVars, quoteVars, markVars, yfVars, pageVars, selVars, cnVars, symVars>>
notIdx == <<gateVars, storeVars, shardVars, planVars, chainVars, histVars, compVars, btVars, uniVars, scoreVars, runVars, quoteVars, markVars, yfVars, pageVars, selVars, cnVars, symVars>>
notChain == <<gateVars, storeVars, shardVars, planVars, idxVars, histVars, compVars, btVars, uniVars, scoreVars, runVars, quoteVars, markVars, yfVars, pageVars, selVars, cnVars, symVars>>
notHist == <<gateVars, storeVars, shardVars, planVars, idxVars, chainVars, compVars, btVars, uniVars, scoreVars, runVars, quoteVars, markVars, yfVars, pageVars, selVars, cnVars, symVars>>
notComp == <<gateVars, storeVars, shardVars, planVars, idxVars, chainVars, histVars, btVars, uniVars, scoreVars, runVars, quoteVars, markVars, yfVars, pageVars, selVars, cnVars, symVars>>
notBt == <<gateVars, storeVars, shardVars, planVars, idxVars, chainVars, histVars, compVars, uniVars, scoreVars, runVars, quoteVars, markVars, yfVars, pageVars, selVars, cnVars, symVars>>
notUni == <<gateVars, storeVars, shardVars, planVars, idxVars, chainVars, histVars, compVars, btVars, scoreVars, runVars, quoteVars, markVars, yfVars, pageVars, selVars, cnVars, symVars>>
notScore == <<gateVars, storeVars, shardVars, planVars, idxVars, chainVars, histVars, compVars, btVars, uniVars, runVars, quoteVars, markVars, yfVars, pageVars, selVars, cnVars, symVars>>
notRun == <<gateVars, storeVars, shardVars, planVars, idxVars, chainVars, histVars, compVars, btVars, uniVars, scoreVars, quoteVars, markVars, yfVars, pageVars, selVars, cnVars, symVars>>
notQuote == <<gateVars, storeVars, shardVars, planVars, idxVars, chainVars, histVars, compVars, btVars, uniVars, scoreVars, runVars, markVars, yfVars, pageVars, selVars, cnVars, symVars>>
notMark == <<gateVars, storeVars, shardVars, planVars, idxVars, chainVars, histVars, compVars, btVars, uniVars, scoreVars, runVars, quoteVars, yfVars, pageVars, selVars, cnVars, symVars>>
notYf == <<gateVars, storeVars, shardVars, planVars, idxVars, chainVars, histVars, compVars, btVars, uniVars, scoreVars, runVars, quoteVars, markVars, pageVars, selVars, cnVars, symVars>>
notPage == <<gateVars, storeVars, shardVars, planVars, idxVars, chainVars, histVars, compVars, btVars, uniVars, scoreVars, runVars, quoteVars, markVars, yfVars, selVars, cnVars, symVars>>
notSel == <<gateVars, storeVars, shardVars, planVars, idxVars, chainVars, histVars, compVars, btVars, uniVars, scoreVars, runVars, quoteVars, markVars, yfVars, pageVars, cnVars, symVars>>
notCn == <<gateVars, storeVars, shardVars, planVars, idxVars, chainVars, histVars, compVars, btVars, uniVars, scoreVars, runVars, quoteVars, markVars, yfVars, pageVars, selVars, symVars>>
notSym == <<gateVars, storeVars, shardVars, planVars, idxVars, chainVars, histVars, compVars, btVars, uniVars, scoreVars, runVars, quoteVars, markVars, yfVars, pageVars, selVars, cnVars>>


\* Python None where a string is expected: no characters at all
None == <<>>

(***************************************************************************)
(* Global fetch gate: _global_fetch_gate, statement by statement.          *)
(***************************************************************************)
\* Bounds of the gate model.
NThreads == 2
MaxCalls == 2
MaxClock == 7

Threads == 1..NThreads

\* gap = 1.0 / max(0.1, _RPS), in clock ticks (default _RPS = 2, tick = 0.25 s)
Gap == 2

\* wait = _last_fetch_ts + gap - now
GateWaitNoSleep(last, now) == 0
GateWait(last, now) == last + Gap - now

InitGate ==
    /\ clock = Gap              \* time.time() is far beyond _last_fetch_ts = 0.0 + gap
    /\ last_fetch_ts = 0
    /\ rate_lock = 0
    /\ gpc = [t \in Threads |-> "idle"]
    /\ gnow = [t \in Threads |-> 0]
    /\ gwake = [t \in Threads |-> 0]
    /\ gcalls = [t \in Threads |-> 0]
    /\ stamps = <<>>
    /\ returns = <<>>

IdleGate == InitGate

\* The wall clock advances between any two statements of any thread.
Tick ==
    /\ clock < MaxClock
    /\ clock' = clock + 1
    /\ UNCHANGED <<notGate, last_fetch_ts, rate_lock, gpc, gnow, gwake, gcalls, stamps, returns>>

\* A worker thread calls _global_fetch_gate().
GateCall(t) ==
    /\ gpc[t] = "idle"
    /\ gcalls[t] < MaxCalls
    /\ gcalls' = [gcalls EXCEPT ![t] = @ + 1]
    /\ gpc' = [gpc EXCEPT ![t] = "acquire"]
    /\ UNCHANGED <<notGate, clock, last_fetch_ts, rate_lock, gnow, gwake, stamps, returns>>

\* with _rate_lock:
GateAcquire(t) ==
    /\ gpc[t] = "acquire"
    /\ rate_lock = 0
    /\ rate_lock' = t
    /\ gpc' = [gpc EXCEPT ![t] = "read_now"]
    /\ UNCHANGED <<notGate, clock, last_fetch_ts, gnow, gwake, gcalls, stamps, returns>>

\* now = time.time(); wait = _last_fetch_ts + gap - now; if wait > 0: time.sleep(wait)
GateReadNow(t) ==
    /\ gpc[t] = "read_now"
    /\ gnow' = [gnow EXCEPT ![t] = clock]
    /\ LET wait == GateWait(last_fetch_ts, clock)
       IN  IF wait > 0
           THEN /\ gwake' = [gwake EXCEPT ![t] = clock + wait]
                /\ gpc' = [gpc EXCEPT ![t] = "sleep"]
           ELSE /\ gpc' = [gpc EXCEPT ![t] = "stamp"]
                /\ UNCHANGED gwake
    /\ UNCHANGED <<notGate, clock, last_fetch_ts, rate_lock, gcalls, stamps, returns>>

\* time.sleep(wait) returns no earlier than `wait` after it was called; now = time.time()
GateSleepDone(t) ==
    /\ gpc[t] = "sleep"
    /\ clock >= gwake[t]
    /\ gnow' = [gnow EXCEPT ![t] = clock]
    /\ gpc' = [gpc EXCEPT ![t] = "stamp"]
    /\ UNCHANGED <<notGate, clock, last_fetch_ts, rate_lock, gwake, gcalls, stamps, returns>>

\* _last_fetch_ts = now
GateStamp(t) ==
    /\ gpc[t] = "stamp"
    /\ last_fetch_ts' = gnow[t]
    /\ stamps' = Append(stamps, gnow[t])
    /\ gpc' = [gpc EXCEPT ![t] = "release"]
    /\ UNCHANGED <<notGate, clock, rate_lock, gnow, gwake, gcalls, returns>>

\* leaving the with block releases _rate_lock
GateRelease(t) ==
    /\ gpc[t] = "release"
    /\ rate_lock' = 0
    /\ gpc' = [gpc EXCEPT ![t] = "return"]
    /\ UNCHANGED <<notGate, clock, last_fetch_ts, gnow, gwake, gcalls, stamps, returns>>

\* the call returns to the worker, which goes on to its upstream fetch
GateReturn(t) ==
    /\ gpc[t] = "return"
    /\ returns' = Append(returns, <<t, gnow[t], clock>>)
    /\ gpc' = [gpc EXCEPT ![t] = "idle"]
    /\ UNCHANGED <<notGate, clock, last_fetch_ts, rate_lock, gnow, gwake, gcalls, stamps>>

NextGate ==
    \/ Tick
    \/ \E t \in Threads : GateCall(t)
    \/ \E t \in Threads : GateAcquire(t)
    \/ \E t \in Threads : GateReadNow(t)
    \/ \E t \in Threads : GateSleepDone(t)
    \/ \E t \in Threads : GateStamp(t)
    \/ \E t \in Threads : GateRelease(t)
    \/ \E t \in Threads : GateReturn(t)


Ord(c) ==
    CASE c = " " -> 32 [] c = "#" -> 35 [] c = "-" -> 45 [] c = "." -> 46
      [] c = "0" -> 48 [] c = "1" -> 49 [] c = "2" -> 50 [] c = "3" -> 51
      [] c = "4" -> 52 [] c = "5" -> 53 [] c = "6" -> 54 [] c = "7" -> 55
      [] c = "8" -> 56 [] c = "9" -> 57
      [] c = "C" -> 67 [] c = "E" -> 69 [] c = "I" -> 73 [] c = "K" -> 75
      [] c = "L" -> 76 [] c = "M" -> 77 [] c = "N" -> 78 [] c = "O" -> 79
      [] c = "Q" -> 81 [] c = "S" -> 83 [] c = "T" -> 84 [] c = "U" -> 85
      [] c = "X" -> 88 [] c = "Y" -> 89 [] c = "x" -> 120 [] c = "y" -> 121

\* a < b as strings
StrLess(a, b) ==
    \/ /\ Len(a) < Len(b)
       /\ \A i \in 1..Len(a) : a[i] = b[i]
    \/ \E k \in 1..Len(a) :
          /\ k <= Len(b)
          /\ \A i \in 1..(k - 1) : a[i] = b[i]
          /\ Ord(a[k]) < Ord(b[k])

\* s.startswith(prefix)
BeginsWith(s, prefix) ==
    /\ Len(prefix) <= Len(s)
    /\ \A i \in 1..Len(prefix) : s[i] = prefix[i]

RECURSIVE LStrip(_)
LStrip(s) == IF s # <<>> /\ Head(s) = " " THEN LStrip(Tail(s)) ELSE s

RECURSIVE RStrip(_)
RStrip(s) ==
    IF s # <<>> /\ s[Len(s)] = " " THEN RStrip(SubSeq(s, 1, Len(s) - 1)) ELSE s

\* str.strip()
Strip(s) == RStrip(LStrip(s))

\* str.upper()
UpperChar(c) == CASE c = "x" -> "X" [] c = "y" -> "Y" [] OTHER -> c
Upper(s) == [i \in 1..Len(s) |-> UpperChar(s[i])]

(***************************************************************************)
(* datetime.date: proleptic Gregorian ordinals, as date.toordinal().       *)
(***************************************************************************)
YearRange == 2019..2027

IsLeap(y) == (y % 4 = 0) /\ ((y % 100 # 0) \/ (y % 400 = 0))

DaysInMonth(y, m) ==
    IF m = 2 THEN (IF IsLeap(y) THEN 29 ELSE 28)
    ELSE IF m \in {4, 6, 9, 11} THEN 30 ELSE 31

DaysBeforeYear(y) ==
    (y - 1) * 365 + ((y - 1) \div 4) - ((y - 1) \div 100) + ((y - 1) \div 400)

RECURSIVE DaysBeforeMonth(_, _)
DaysBeforeMonth(y, m) ==
    IF m = 1 THEN 0 ELSE DaysBeforeMonth(y, m - 1) + DaysInMonth(y, m - 1)

\* date(y, m, d).toordinal()
Ymd2Ord(y, m, d) == DaysBeforeYear(y) + DaysBeforeMonth(y, m) + d

\* date.fromordinal(n) as <<year, month, day>>
Ord2Ymd(n) ==
    LET y == CHOOSE yy \in YearRange :
                 DaysBeforeYear(yy) < n /\ n <= DaysBeforeYear(yy + 1)
        r == n - DaysBeforeYear(y)
        m == CHOOSE mm \in 1..12 :
                 DaysBeforeMonth(y, mm) < r /\ r <= DaysBeforeMonth(y, mm) + DaysInMonth(y, mm)
    IN  <<y, m, r - DaysBeforeMonth(y, m)>>

DigitChar(n) == <<"0", "1", "2", "3", "4", "5", "6", "7", "8", "9">>[n + 1]

\* "%d" % n
RECURSIVE Digits(_)
Digits(n) == IF n < 10 THEN <<DigitChar(n)>> ELSE Append(Digits(n \div 10), DigitChar(n % 10))

\* "%0<w>d" % n
RECURSIVE ZeroPad(_, _)
ZeroPad(s, w) == IF Len(s) >= w THEN s ELSE ZeroPad(<<"0">> \o s, w)

\* date.isoformat(): "%04d-%02d-%02d"
isoformat_unpadded(n) ==
    LET ymd == Ord2Ymd(n)
    IN  Digits(ymd[1]) \o <<"-">> \o Digits(ymd[2]) \o <<"-">> \o Digits(ymd[3])
isoformat(n) ==
    LET ymd == Ord2Ymd(n)
    IN  ZeroPad(Digits(ymd[1]), 4) \o <<"-">> \o ZeroPad(Digits(ymd[2]), 2)
            \o <<"-">> \o ZeroPad(Digits(ymd[3]), 2)

(***************************************************************************)
(* Key codec (keys.py).                                                    *)
(***************************************************************************)
RECURSIVE JoinHash(_)
JoinHash(parts) ==
    IF parts = <<>> THEN <<>>
    ELSE IF Len(parts) = 1 THEN parts[1]
    ELSE parts[1] \o <<"#">> \o JoinHash(Tail(parts))

\* "#".join(str(p) for p in parts if p is not None and p != "")
concat(parts) == JoinHash(SelectSeq(parts, LAMBDA p : p # <<>>))

make_pk_stock(symbol) == concat(<< <<"S", "T", "O", "C", "K">>, symbol >>)

make_sk_quote_date_nodate(quote_date) == concat(<< <<"Q", "U", "O", "T", "E">> >>)
make_sk_quote_date(quote_date) == concat(<< <<"Q", "U", "O", "T", "E">>, isoformat(quote_date) >>)

make_gsi1pk_symbol(symbol) == concat(<< <<"S", "Y", "M", "B", "O", "L">>, symbol >>)

make_gsi1sk_entity(entity, timestamp_iso) ==
    concat(<< <<"E", "N", "T", "I", "T", "Y">>, entity, timestamp_iso >>)

QUOTE == <<"Q", "U", "O", "T", "E">>
ENTITY_QUOTE == <<"E", "N", "T", "I", "T", "Y", "#", "Q", "U", "O", "T", "E">>

(***************************************************************************)
(* Repository and quote service (repository.py, StockData.py).             *)
(***************************************************************************)
\* Bounds of the store model.
MaxBatch == 2
MaxUpserts == 2
MaxThrottle == 1

NaT == 0
RawSymbols == { <<"X">>, <<" ", "X">>, <<"Y">> }
StoreDates == { Ymd2Ord(2025, 9, 10), Ymd2Ord(2025, 10, 2) }
Closes == {1, 2}

\* rows of a quotes frame: symbol, date (NaT when unparsable), close
Rows ==
    { r \in [symbol : RawSymbols, date : StoreDates \cup {NaT}, close : Closes] :
        /\ (r.date = NaT) => (r.symbol = <<"X">> /\ r.close = 1)
        /\ (r.symbol = <<" ", "X">>) => r.close = 2
        /\ (r.symbol = <<"Y">>) => r.close = 1 }
Frames == UNION { [1..n -> Rows] : n \in 0..MaxBatch }

\* StockData.upsert_quotes_df, lines 37-43 and 72-132: the items built from a frame
quote_item(row) ==
    LET symbol == Strip(row.symbol)
        d == row.date
    IN  [ pk |-> make_pk_stock(symbol),
          sk |-> make_sk_quote_date(d),
          gsi1pk |-> make_gsi1pk_symbol(symbol),
          gsi1sk |-> make_gsi1sk_entity(QUOTE, isoformat(d)),
          symbol |-> symbol,
          date |-> isoformat(d),
          close |-> row.close ]

\* the items of the rows that can occur, computed once
RECURSIVE ItemTable(_)
ItemTable(S) ==
    IF S = {} THEN <<>>
    ELSE LET r == CHOOSE x \in S : TRUE IN (r :> quote_item(r)) @@ ItemTable(S \ {r})
RECURSIVE IsoTable(_)
IsoTable(S) ==
    IF S = {} THEN <<>>
    ELSE LET d == CHOOSE x \in S : TRUE IN (d :> isoformat(d)) @@ IsoTable(S \ {d})
RECURSIVE StripTable(_)
StripTable(S) ==
    IF S = {} THEN <<>>
    ELSE LET sym == CHOOSE x \in S : TRUE IN (sym :> Strip(sym)) @@ StripTable(S \ {sym})
ItemOf == ItemTable({x \in Rows : x.date # NaT})
IsoOf == IsoTable(StoreDates)
StripOf == StripTable(RawSymbols)

quote_items(df) ==
    LET normalized == SelectSeq(df, LAMBDA r : r.date # NaT)
    IN  [i \in 1..Len(normalized) |-> ItemOf[normalized[i]]]

\* writer.put_item(Item=item) under overwrite_by_pkeys=["pk", "sk"]
store_put(t, item) ==
    {it \in t : ~(it.pk = item.pk /\ it.sk = item.sk)} \cup {item}

RECURSIVE store_put_all(_, _)
store_put_all(t, items) ==
    IF items = <<>> THEN t ELSE store_put_all(store_put(t, Head(items)), Tail(items))

\* DynamoRepository.batch_put: the table after the call and its outcome, when
\* the store rejects the write of item number failAt (0: no rejection)
batch_put_result(failAt) == IF failAt = 0 THEN "ok" ELSE "RepositoryError"
batch_put_table(t, items, failAt) ==
    IF failAt = 0 THEN store_put_all(t, items)
    ELSE store_put_all(t, SubSeq(items, 1, failAt - 1))

\* items of a query result in index order
RECURSIVE SortBySk(_, _)
SortBySk(S, forward) ==
    IF S = {} THEN <<>>
    ELSE LET first == CHOOSE x \in S : \A y \in S :
                          IF forward THEN ~StrLess(y.gsi1sk, x.gsi1sk)
                          ELSE ~StrLess(x.gsi1sk, y.gsi1sk)
         IN  <<first>> \o SortBySk(S \ {first}, forward)

\* DynamoRepository.query_by_symbol; limit 0 stands for no limit
query_by_symbol(t, symbol_pk, begins_with_prefix, limit, scan_forward) ==
    LET matching == {it \in t : it.gsi1pk = symbol_pk
                                 /\ BeginsWith(it.gsi1sk, begins_with_prefix)}
        items == SortBySk(matching, scan_forward)
    IN  IF limit > 0 /\ Len(items) > limit THEN SubSeq(items, 1, limit) ELSE items

\* StockData.get_latest_quote_date
get_latest_quote_date(t, symbol) ==
    LET items == query_by_symbol(t, make_gsi1pk_symbol(Strip(symbol)), ENTITY_QUOTE, 1, FALSE)
    IN  IF items = <<>> THEN None ELSE items[1].date

NoOp == [op |-> "none"]

InitStore ==
    /\ table = {}
    /\ throttle \in 0..MaxThrottle
    /\ lastOp = NoOp
    /\ nUpserts = 0

IdleStore ==
    /\ table = {}
    /\ throttle = 0
    /\ lastOp = NoOp
    /\ nUpserts = 0

\* StockData.upsert_quotes_df(df): build the items, batch_put them, return the count
UpsertQuotes ==
    /\ nUpserts < MaxUpserts
    /\ nUpserts' = nUpserts + 1
    /\ \E df \in Frames :
        LET items == quote_items(df)
        IN  \E failAt \in 0..Len(items) :
                /\ failAt > 0 => throttle > 0
                /\ table' = batch_put_table(table, items, failAt)
                /\ throttle' = IF failAt > 0 THEN throttle - 1 ELSE throttle
                /\ lastOp' = [ op |-> "upsert_quotes_df", df |-> df, items |-> items,
                               rejections |-> IF failAt > 0 THEN 1 ELSE 0,
                               result |-> batch_put_result(failAt) ]
                /\ UNCHANGED notStore

\* StockData.get_latest_quote_date(symbol)
LatestQuoteDate ==
    \E symbol \in RawSymbols :
        /\ lastOp' = [ op |-> "get_latest_quote_date", symbol |-> symbol,
                       result |-> get_latest_quote_date(table, symbol) ]
        /\ UNCHANGED <<notStore, table, throttle, nUpserts>>

NextStore ==
    \/ UpsertQuotes
    \/ LatestQuoteDate

\* C2: a batch in which the store rejects one item write once with a throttling
\* error is retried: batch_put returns without raising and every item of the
\* batch is in the table.
C2_BatchPutRetriesThrottle ==
    (lastOp.op = "upsert_quotes_df" /\ lastOp.rejections = 1) =>
        /\ lastOp.result = "ok"
        /\ \A i \in 1..Len(lastOp.items) :
              \E it \in table : it.pk = lastOp.items[i].pk /\ it.sk = lastOp.items[i].sk

\* the rows of a frame that are written (date parsable), in frame order
WrittenRows(df) == SelectSeq(df, LAMBDA r : r.date # NaT)

\* C3: after a successful upsert, every (symbol, date) of the batch has exactly
\* one stored row and it carries the values of the last such row of the batch;
\* the table never holds two rows for one (symbol, date).
C3_LastWriterWins ==
    /\ \A a, b \in table : (a.symbol = b.symbol /\ a.date = b.date) => a = b
    /\ (lastOp.op = "upsert_quotes_df" /\ lastOp.result = "ok") =>
          LET rows == WrittenRows(lastOp.df)
          IN  \A i \in 1..Len(rows) :
                LET last == CHOOSE j \in 1..Len(rows) :
                                /\ StripOf[rows[j].symbol] = StripOf[rows[i].symbol]
                                /\ rows[j].date = rows[i].date
                                /\ \A k \in (j + 1)..Len(rows) :
                                      ~(StripOf[rows[k].symbol] = StripOf[rows[i].symbol]
                                        /\ rows[k].date = rows[i].date)
                    stored == {it \in table : it.symbol = StripOf[rows[i].symbol]
                                              /\ it.date = IsoOf[rows[i].date]}
                IN  /\ Cardinality(stored) = 1
                    /\ \A it \in stored : it.close = rows[last].close

\* A batch with two rows of one (symbol, date) and different values was
\* written over an earlier row of that key, next to a row of another date.
C3_Witness ==
    /\ lastOp.op = "upsert_quotes_df" /\ lastOp.result = "ok"
    /\ Len(lastOp.items) = 2
    /\ lastOp.items[1].symbol = lastOp.items[2].symbol
    /\ lastOp.items[1].date = lastOp.items[2].date
    /\ lastOp.items[1].close # lastOp.items[2].close
    /\ Cardinality(table) >= 2

\* the dates stored for a symbol
StoredDates(symbol) ==
    {d \in StoreDates : \E it \in table : it.symbol = StripOf[symbol] /\ it.date = IsoOf[d]}

\* C4: get_latest_quote_date(symbol) is the maximum date stored for the symbol,
\* None when no quote row exists for it.
C4_LatestIsMax ==
    (lastOp.op = "get_latest_quote_date") =>
        LET ds == StoredDates(lastOp.symbol)
        IN  IF ds = {} THEN lastOp.result = None
            ELSE lastOp.result = IsoOf[CHOOSE d \in ds : \A e \in ds : e <= d]

\* The query ran against a symbol that holds rows of both a September and an
\* October date and answered with the October one.
C4_Witness ==
    /\ lastOp.op = "get_latest_quote_date"
    /\ Cardinality(StoredDates(lastOp.symbol)) >= 2
    /\ lastOp.result = IsoOf[Ymd2Ord(2025, 10, 2)]

(***************************************************************************)
(* Sharding: shard_ok (company sync) and handler._shard_ok (CN quote sync). *)
(***************************************************************************)
\* Bound of the shard model.
MaxShardTotal == 4

ShardSymbols == { <<"X">>, <<"x">>, <<" ", "X">>, <<"Y">>, <<"y">> }

\* int(hashlib.md5(s.encode("utf-8")).hexdigest(), 16) modulo 2520 = lcm(1..10),
\* which determines the digest modulo every shard_total up to 10
md5_mod_2520(s) ==
    CASE s = <<"X">> -> 1539
      [] s = <<"x">> -> 2238
      [] s = <<" ", "X">> -> 2351
      [] s = <<"Y">> -> 1192
      [] s = <<"y">> -> 109

Max(a, b) == IF a >= b THEN a ELSE b

\* financials.shard_ok
shard_ok(symbol, shard_total, shard_index) ==
    LET norm == Upper(Strip(symbol))
        h == md5_mod_2520(norm)
    IN  (h % Max(1, shard_total)) = shard_index

\* sync_cn_stocks.handler._shard_ok
cn_shard_ok(sym, shard_total, shard_index) ==
    LET h == md5_mod_2520(sym)
    IN  (h % shard_total) = shard_index

\* sync_companies_for_shard: if shard_total > 1: keep s iff shard_ok(s, ...)
company_sync_keeps(symbol, shard_total, shard_index) ==
    IF shard_total > 1 THEN shard_ok(symbol, shard_total, shard_index) ELSE TRUE

\* sync_cn_stocks.handler: if shard_total > 1: keep s iff _shard_ok(s)
cn_sync_keeps(symbol, shard_total, shard_index) ==
    IF shard_total > 1 THEN cn_shard_ok(symbol, shard_total, shard_index) ELSE TRUE

ShardInputs ==
    { r \in [symbol : ShardSymbols, total : 1..MaxShardTotal, index : 0..(MaxShardTotal - 1)] :
        r.index < r.total }

InitShard ==
    /\ shardIn \in ShardInputs
    /\ shardDone = {}
    /\ shardOut = [company |-> FALSE, cn |-> FALSE]

IdleShard ==
    /\ shardIn = [symbol |-> <<"X">>, total |-> 1, index |-> 0]
    /\ shardDone = {}
    /\ shardOut = [company |-> FALSE, cn |-> FALSE]

\* the company sync filters the symbol
CompanySyncShard ==
    /\ "company" \notin shardDone
    /\ shardDone' = shardDone \cup {"company"}
    /\ shardOut' = [shardOut EXCEPT
                      !.company = company_sync_keeps(shardIn.symbol, shardIn.total, shardIn.index)]
    /\ UNCHANGED <<notShard, shardIn>>

\* the CN quote sync filters the symbol
CnSyncShard ==
    /\ "cn" \notin shardDone
    /\ shardDone' = shardDone \cup {"cn"}
    /\ shardOut' = [shardOut EXCEPT
                      !.cn = cn_sync_keeps(shardIn.symbol, shardIn.total, shardIn.index)]
    /\ UNCHANGED <<notShard, shardIn>>

NextShard ==
    \/ CompanySyncShard
    \/ CnSyncShard

\* C5: both entry points keep a symbol on exactly the shard
\* md5(uppercase(symbol)) mod shard_total, whatever the letter case of the symbol.
C5_ShardsAgree ==
    (shardDone = {"company", "cn"}) =>
        LET shard == md5_mod_2520(Upper(Strip(shardIn.symbol))) % shardIn.total
        IN  /\ shardOut.company = (shard = shardIn.index)
            /\ shardOut.cn = (shard = shardIn.index)

(***************************************************************************)
(* CN sync planner (sync.py).                                              *)
(***************************************************************************)
\* Bounds of the planner model.
MaxWindowDays == 5
MaxBackfillYears == 3

\* "2025-09-10".split("-")
RECURSIVE SplitDash(_)
SplitDash(s) ==
    IF \A i \in 1..Len(s) : s[i] # "-" THEN <<s>>
    ELSE LET k == CHOOSE i \in 1..Len(s) : s[i] = "-" /\ \A j \in 1..(i - 1) : s[j] # "-"
         IN  <<SubSeq(s, 1, k - 1)>> \o SplitDash(SubSeq(s, k + 1, Len(s)))

\* int("09")
RECURSIVE ToInt(_)
ToInt(s) ==
    IF s = <<>> THEN 0
    ELSE 10 * ToInt(SubSeq(s, 1, Len(s) - 1)) + (Ord(s[Len(s)]) - 48)

\* y, m, d = iso.split("-"); date(int(y), int(m), int(d))
ParseIso(iso) ==
    LET parts == SplitDash(iso)
    IN  Ymd2Ord(ToInt(parts[1]), ToInt(parts[2]), ToInt(parts[3]))

\* sync._subtract_years
subtract_years(d, years) ==
    LET ymd == Ord2Ymd(d)
    IN  IF ymd[3] <= DaysInMonth(ymd[1] - years, ymd[2])
        THEN Ymd2Ord(ymd[1] - years, ymd[2], ymd[3])
        ELSE d - 365 * years

\* sync.compute_backfill_start, once its arguments are bound
compute_backfill_start(today, latest_iso, window_days, full_backfill_years) ==
    IF latest_iso = None
    THEN IF full_backfill_years > 0
         THEN subtract_years(today, full_backfill_years)
         ELSE today - window_days
    ELSE LET latest_d == ParseIso(latest_iso)
             default_start == today - window_days
         IN  Max(default_start, latest_d + 1)

\* Python argument binding: a call that omits a parameter without default, or
\* passes a keyword the function does not declare, raises TypeError
BindsTo(passed, required, optional) ==
    /\ required \subseteq passed
    /\ passed \subseteq (required \cup optional)

ComputeRequired == {"today", "latest_iso", "window_days"}
ComputeOptional == {"full_backfill_years"}
BuildRequired == {"symbols", "get_latest_quote_date", "last_trading_day", "today", "window_days"}
BuildOptional == {"full_backfill_years", "initial_only"}

\* the calls the repository makes, and the call the signature asks for
TestsComputeCall == {"today", "latest_iso", "full_backfill_years"}
SignatureComputeCall == {"today", "latest_iso", "window_days", "full_backfill_years"}
TestsBuildCall ==
    {"symbols", "get_latest_quote_date", "last_trading_day", "today",
     "full_backfill_years", "initial_only"}
HandlerBuildCall ==
    {"symbols", "get_latest_quote_date", "last_trading_day", "today",
     "full_backfill_years", "initial_only", "catch_up_max_days", "catch_up_max_years"}
SignatureBuildCall ==
    {"symbols", "get_latest_quote_date", "last_trading_day", "today", "window_days",
     "full_backfill_years", "initial_only"}

PlanSymbols == <<"SH600519", "SZ000001">>

\* if initial_only and latest is not None: continue
skip_initial_only_never(initial_only, latest) == FALSE
skip_initial_only(initial_only, latest) == initial_only /\ latest # None

\* if latest is not None and date(latest) >= last_trading_day: continue
skip_up_to_date(latest, last_trading_day) ==
    IF latest = None THEN FALSE ELSE ParseIso(latest) >= last_trading_day

\* sync.build_cn_sync_plans, once its arguments are bound: the loop over symbols
RECURSIVE build_plans_loop(_, _, _, _, _, _, _)
build_plans_loop(symbols, latest_of, last_trading_day, today, window_days, full_backfill_years, initial_only) ==
    IF symbols = <<>> THEN <<>>
    ELSE LET sym == Head(symbols)
             latest == latest_of[sym]
             rest == build_plans_loop(Tail(symbols), latest_of, last_trading_day, today,
                                      window_days, full_backfill_years, initial_only)
             start == compute_backfill_start(today, latest, window_days, full_backfill_years)
         IN  IF skip_initial_only(initial_only, latest) THEN rest
             ELSE IF skip_up_to_date(latest, last_trading_day) THEN rest
             ELSE IF start <= today THEN <<[symbol |-> sym, start |-> start]>> \o rest
             ELSE rest

PlanTodays == { Ymd2Ord(2025, 9, 14), Ymd2Ord(2024, 2, 29) }
\* how many days before today the latest stored quote lies
LatestAges == {0, 2, 4, 622}
LatestChoices(today) == {None} \cup { isoformat(today - k) : k \in LatestAges }

PlanInputs ==
    UNION { [ fn : {"build_cn_sync_plans"},
              passed : {TestsBuildCall, HandlerBuildCall, SignatureBuildCall},
              today : {today},
              last_trading_day : {today, today - 2},
              latest_of : [{PlanSymbols[1], PlanSymbols[2]} -> LatestChoices(today)],
              window_days : 0..MaxWindowDays,
              full_backfill_years : 0..MaxBackfillYears,
              initial_only : BOOLEAN ] : today \in PlanTodays }
    \cup
    UNION { [ fn : {"compute_backfill_start"},
              passed : {TestsComputeCall, SignatureComputeCall},
              today : {today},
              last_trading_day : {today},
              latest_of : [{PlanSymbols[1], PlanSymbols[2]} -> {None, isoformat(today - 4)}],
              window_days : 0..MaxWindowDays,
              full_backfill_years : 0..MaxBackfillYears,
              initial_only : {FALSE} ] : today \in PlanTodays }

Pending == [status |-> "pending", plans |-> <<>>, start |-> 0]

InitPlan ==
    /\ planIn \in PlanInputs
    /\ planOut = Pending

IdlePlan ==
    /\ planIn = [ fn |-> "none" ]
    /\ planOut = Pending

\* a call of build_cn_sync_plans
CallBuildPlans ==
    /\ planIn.fn = "build_cn_sync_plans"
    /\ planOut.status = "pending"
    /\ planOut' =
          IF ~BindsTo(planIn.passed, BuildRequired, BuildOptional)
          THEN [status |-> "TypeError", plans |-> <<>>, start |-> 0]
          ELSE [status |-> "returned",
                plans |-> build_plans_loop(PlanSymbols, planIn.latest_of,
                              planIn.last_trading_day, planIn.today, planIn.window_days,
                              planIn.full_backfill_years, planIn.initial_only),
                start |-> 0]
    /\ UNCHANGED <<notPlan, planIn>>

\* a call of compute_backfill_start for the first symbol
CallComputeBackfillStart ==
    /\ planIn.fn = "compute_backfill_start"
    /\ planOut.status = "pending"
    /\ planOut' =
          IF ~BindsTo(planIn.passed, ComputeRequired, ComputeOptional)
          THEN [status |-> "TypeError", plans |-> <<>>, start |-> 0]
          ELSE [status |-> "returned", plans |-> <<>>,
                start |-> compute_backfill_start(planIn.today,
                              planIn.latest_of[PlanSymbols[1]], planIn.window_days,
                              planIn.full_backfill_years)]
    /\ UNCHANGED <<notPlan, planIn>>

NextPlan ==
    \/ CallBuildPlans
    \/ CallComputeBackfillStart

PlannedSymbols == { planOut.plans[i].symbol : i \in 1..Len(planOut.plans) }
PlanSymbolSet == { PlanSymbols[i] : i \in 1..Len(PlanSymbols) }

\* C6: called as the tests call it (symbols, get_latest_quote_date,
\* last_trading_day, today, full_backfill_years[, initial_only]),
\* build_cn_sync_plans returns plans with none for a symbol whose latest stored
\* date is on or after last_trading_day.
C6_SkipsUpToDate ==
    (planIn.fn = "build_cn_sync_plans" /\ planIn.passed = TestsBuildCall
        /\ planOut.status # "pending") =>
        /\ planOut.status = "returned"
        /\ \A sym \in PlanSymbolSet :
              (planIn.latest_of[sym] # None
                 /\ ParseIso(planIn.latest_of[sym]) >= planIn.last_trading_day)
              => sym \notin PlannedSymbols

HandlerCatchUpMaxDays == 60

\* C32: with CATCH_UP_MAX_DAYS configured, the call the CN quote-sync handler
\* makes (symbols, get_latest_quote_date, last_trading_day, today,
\* full_backfill_years, initial_only, catch_up_max_days, catch_up_max_years)
\* returns plans, and every plan starts no earlier than today minus the
\* configured number of days.
C32_CatchUpBoundsPlans ==
    (planIn.fn = "build_cn_sync_plans" /\ planIn.passed = HandlerBuildCall
        /\ planOut.status # "pending") =>
        /\ planOut.status = "returned"
        /\ \A i \in 1..Len(planOut.plans) :
              planOut.plans[i].start >= planIn.today - HandlerCatchUpMaxDays

\* C8: compute_backfill_start(today, latest_iso=None, full_backfill_years=k)
\* returns today for k = 0 and today minus k years for k > 0.
C8_BackfillStartDefaults ==
    (planIn.fn = "compute_backfill_start" /\ planIn.passed = TestsComputeCall
        /\ planIn.latest_of[PlanSymbols[1]] = None /\ planOut.status # "pending") =>
        /\ planOut.status = "returned"
        /\ planOut.start = IF planIn.full_backfill_years = 0 THEN planIn.today
                           ELSE subtract_years(planIn.today, planIn.full_backfill_years)

\* C9: in the plans a call returns, a symbol with stored history
\* latest < last_trading_day has a plan exactly when latest + 1 day <= today,
\* and the plan's start is latest + 1 day however far behind latest is.
C9_StartIsLatestPlusOne ==
    (planIn.fn = "build_cn_sync_plans" /\ planOut.status = "returned"
        /\ ~planIn.initial_only) =>
        \A sym \in PlanSymbolSet :
            (planIn.latest_of[sym] # None
               /\ ParseIso(planIn.latest_of[sym]) < planIn.last_trading_day) =>
            /\ (sym \in PlannedSymbols) <=> (ParseIso(planIn.latest_of[sym]) + 1 <= planIn.today)
            /\ \A i \in 1..Len(planOut.plans) :
                  planOut.plans[i].symbol = sym =>
                      planOut.plans[i].start = ParseIso(planIn.latest_of[sym]) + 1

(***************************************************************************)
(* Index-quote sync handler (sync_index_quotes.py, calendar.py).           *)
(***************************************************************************)
US_SPY == <<"U", "S", ":", "S", "P", "Y">>
CN_SHCOMP == <<"C", "N", ":", "S", "H", "C", "O", "M", "P">>
GLOBAL_DXY == <<"G", "L", "O", "B", "A", "L", ":", "D", "X", "Y">>
GLOBAL_VIX == <<"G", "L", "O", "B", "A", "L", ":", "V", "I", "X">>

\* keys of get_index_source_mapping() that the model uses
IndexSymbols == {US_SPY, CN_SHCOMP, GLOBAL_DXY}
Markets == {"CN", "US"}

\* calendar.infer_market_from_symbol; "" stands for None
infer_market_from_symbol(symbol) ==
    LET sym == Upper(Strip(symbol))
    IN  IF BeginsWith(sym, <<"C", "N", ":">>) THEN "CN"
        ELSE IF BeginsWith(sym, <<"U", "S", ":">>) THEN "US"
        ELSE IF sym = GLOBAL_VIX THEN "US"
        ELSE ""

\* infer_market_from_symbol(s) or "US"
market_of(symbol) ==
    IF infer_market_from_symbol(symbol) = "" THEN "US" ELSE infer_market_from_symbol(symbol)

IndexToday == Ymd2Ord(2025, 9, 14)

\* sync_index_quotes._three_years_ago
three_years_ago(d) == subtract_years(d, 3)

\* sync_index_quotes._next_day
next_day(iso_date) == ParseIso(iso_date) + 1

\* Bound of the handler model: how many days back the stored latest date may lie.
MaxLatestAge == 3

IndexLatest == {None} \cup { isoformat(IndexToday - k) : k \in 0..MaxLatestAge }

\* rows build_quotes_df(symbol, start, end) returns: the upstream has a row for
\* every day before today, and for today when the symbol's market has published it
quotes_rows(in, symbol, start, end) ==
    IF start > end THEN 0
    ELSE (end - start + 1) - (IF end = in.today /\ ~in.upstream_today[market_of(symbol)] THEN 1 ELSE 0)

\* sync_index_quotes._any_sentinel_has_today: the sentinels of CN and US are mapped
any_sentinel_has_today(in, market) == in.upstream_today[market]

\* markets_to_skip of the handler
markets_to_skip(in, involved) ==
    { m \in involved : ~in.trading[m] \/ ~any_sentinel_has_today(in, m) }

\* one iteration of the handler's loop over symbols
symbol_result(in, symbol) ==
    LET market == market_of(symbol)
        involved == { market_of(x) : x \in in.symbols }
        latest == in.latest[symbol]
        default_start == three_years_ago(in.today)
        start == IF latest = None THEN default_start ELSE Max(default_start, next_day(latest))
        rows == quotes_rows(in, symbol, start, in.today)
    IN  IF market \in markets_to_skip(in, involved)
        THEN [ingested |-> 0, skipped |-> TRUE, reason |-> "non-trading day", upserted |-> FALSE]
        ELSE IF start > in.today
        THEN [ingested |-> 0, skipped |-> TRUE, reason |-> "", upserted |-> FALSE]
        ELSE IF rows = 0
        THEN [ingested |-> 0, skipped |-> FALSE, reason |-> "", upserted |-> FALSE]
        ELSE [ingested |-> rows, skipped |-> FALSE, reason |-> "", upserted |-> TRUE]

RECURSIVE SumIngested(_, _)
SumIngested(results, S) ==
    IF S = {} THEN 0
    ELSE LET x == CHOOSE y \in S : TRUE
         IN  results[x].ingested + SumIngested(results, S \ {x})

\* sync_index_quotes.handler
index_handler(in) ==
    LET involved == { market_of(x) : x \in in.symbols }
        results == [x \in in.symbols |-> symbol_result(in, x)]
    IN  IF in.symbols = {}
        THEN [status |-> 200, total_rows |-> 0, results |-> <<>>, skipped |-> TRUE,
              reason |-> "no symbols"]
        ELSE IF \A m \in involved : ~in.trading[m]
        THEN [status |-> 200, total_rows |-> 0, results |-> <<>>, skipped |-> TRUE,
              reason |-> "non-trading day"]
        ELSE [status |-> 200, total_rows |-> SumIngested(results, in.symbols),
              results |-> results, skipped |-> FALSE, reason |-> ""]

IndexInputs ==
    [ symbols : SUBSET IndexSymbols,
      today : {IndexToday},
      trading : [Markets -> BOOLEAN],
      upstream_today : [Markets -> BOOLEAN],
      latest : [IndexSymbols -> IndexLatest] ]

IdxPending == [status |-> 0]

InitIdx ==
    /\ idxIn \in IndexInputs
    /\ idxOut = IdxPending

IdleIdx ==
    /\ idxIn = [symbols |-> {}]
    /\ idxOut = IdxPending

\* one invocation of the handler
IndexHandler ==
    /\ idxOut.status = 0
    /\ idxIn.symbols \subseteq IndexSymbols
    /\ idxOut' = index_handler(idxIn)
    /\ UNCHANGED <<notIdx, idxIn>>

NextIdx == IndexHandler

\* the symbols of a run whose market is closed today, or has not published
\* today's row, and whose stored latest date leaves a gap before today
GapOnClosedDay ==
    { x \in idxIn.symbols :
        /\ ~idxIn.trading[market_of(x)] \/ ~idxIn.upstream_today[market_of(x)]
        /\ idxIn.latest[x] # None
        /\ next_day(idxIn.latest[x]) < idxIn.today }

\* C10: when today is not a trading day for a symbol's market (or its sentinel
\* has no row for today), a symbol with a gap before today is still fetched
\* and upserted for the earlier dates, so the run reports total_rows > 0.
C10_BackfillOnClosedDay ==
    (idxOut.status # 0 /\ GapOnClosedDay # {}) =>
        /\ idxOut.total_rows > 0
        /\ ~idxOut.skipped
        /\ \A x \in GapOnClosedDay : idxOut.results[x].upserted

\* the symbols of a run whose only missing date is today (the stored latest
\* date is yesterday) and whose market does not trade today
TodayOnlyOnClosedDay ==
    { x \in idxIn.symbols :
        /\ ~idxIn.trading[market_of(x)]
        /\ idxIn.latest[x] # None
        /\ next_day(idxIn.latest[x]) = idxIn.today }

\* C11: when the only date a symbol is missing is today and today is not a
\* trading day for its market, the handler returns status 200, performs no
\* upsert for the symbol, and the results list of the response holds an entry
\* for the symbol that is flagged skipped.
C11_TodayOnlyGated ==
    (idxOut.status # 0 /\ TodayOnlyOnClosedDay # {}) =>
        /\ idxOut.status = 200
        /\ \A x \in TodayOnlyOnClosedDay :
              /\ x \in DOMAIN idxOut.results
              /\ idxOut.results[x].skipped
              /\ ~idxOut.results[x].upserted

(***************************************************************************)
(* Index quote source chain (index/quotes.py).                             *)
(***************************************************************************)
YFINANCE == <<"y", "f", "i", "n", "a", "n", "c", "e">>
AKSHARE == <<"a", "k", "s", "h", "a", "r", "e">>
AKSHARE_US == <<"a", "k", "s", "h", "a", "r", "e", "_", "u", "s">>
AKSHARE_MACRO == <<"a", "k", "s", "h", "a", "r", "e", "_", "m", "a", "c", "r", "o">>
UNKNOWN == <<"U", "N", "K", "N", "O", "W", "N">>

\* get_index_source_mapping().get(symbol): source key -> source symbol
source_spec(symbol) ==
    CASE symbol = US_SPY -> (YFINANCE :> "SPY" @@ AKSHARE_US :> "SPY")
      [] symbol = CN_SHCOMP -> (AKSHARE :> "sh000001")
      [] symbol = GLOBAL_DXY -> (YFINANCE :> "DX=F")
      [] symbol = GLOBAL_VIX -> (YFINANCE :> "^VIX")
      [] OTHER -> None

\* keys of FETCH_DISPATCH (the akshare_macro entry is commented out)
FETCH_DISPATCH == {YFINANCE, AKSHARE, AKSHARE_US}

\* str.split(",")
RECURSIVE SplitComma(_)
SplitComma(s) ==
    IF \A i \in 1..Len(s) : s[i] # ","
    THEN <<s>>
    ELSE LET k == CHOOSE i \in 1..Len(s) : s[i] = "," /\ \A j \in 1..(i - 1) : s[j] # ","
         IN  <<SubSeq(s, 1, k - 1)>> \o SplitComma(SubSeq(s, k + 1, Len(s)))

RECURSIVE StripParts(_)
StripParts(parts) ==
    IF parts = <<>> THEN <<>>
    ELSE (IF Strip(Head(parts)) # <<>> THEN <<Strip(Head(parts))>> ELSE <<>>)
         \o StripParts(Tail(parts))

\* [part.strip() for part in env_value.split(",") if part.strip()], [] when unset
configured_sources(env_value) ==
    IF env_value = None THEN <<>> ELSE StripParts(SplitComma(env_value))

default_order == <<YFINANCE, AKSHARE_US, AKSHARE_MACRO, AKSHARE>>

\* the loop of _resolve_source_order over a list of candidate keys
RECURSIVE order_loop(_, _, _)
order_loop(keys, spec, order) ==
    IF keys = <<>> THEN order
    ELSE LET key == Head(keys)
         IN  IF key \in DOMAIN spec /\ \A i \in 1..Len(order) : order[i] # key
             THEN order_loop(Tail(keys), spec, Append(order, key))
             ELSE order_loop(Tail(keys), spec, order)

resolve_source_order_default_first(spec, env_value) ==
    order_loop(default_order \o configured_sources(env_value), spec, <<>>)

\* _resolve_source_order
resolve_source_order(spec, env_value) ==
    order_loop(configured_sources(env_value) \o default_order, spec, <<>>)

\* _empty_yf_frame()
empty_yf_frame == [empty |-> TRUE, fetched_by |-> None, symbol |-> None, source |-> None]

\* the non-empty frame the fetcher of source_key returns
fetched_frame(source_key) ==
    [empty |-> FALSE, fetched_by |-> source_key, symbol |-> None, source |-> None]

\* build_quotes_df applied to the pair _fetch_index_quotes_with_source returns
build_quotes_df(symbol, data, source_key) ==
    IF data.empty THEN data
    ELSE [data EXCEPT !.symbol = symbol, !.source = source_key]

ChainSymbols == {US_SPY, CN_SHCOMP, GLOBAL_DXY, UNKNOWN}

\* values of INDEX_QUOTE_SOURCES
ChainEnvs ==
    { None,
      YFINANCE \o <<",">> \o AKSHARE_US,
      AKSHARE_US \o <<",", " ">> \o YFINANCE,
      AKSHARE \o <<",">> \o YFINANCE,
      <<" ", ",">> \o AKSHARE_US \o <<",">> \o AKSHARE_US,
      AKSHARE_MACRO \o <<",">> \o AKSHARE_US }

\* what a fetcher does when called: return rows, return an empty frame, or raise
FetchOutcomes == {"rows", "empty", "raise"}

ChainInputs ==
    [ symbol : ChainSymbols,
      env : ChainEnvs,
      outcome : [FETCH_DISPATCH -> FetchOutcomes] ]

ChainIdleState == [pc |-> "idle", order |-> <<>>, i |-> 1, calls |-> <<>>]

InitChain ==
    /\ chainIn \in ChainInputs
    /\ chain = ChainIdleState
    /\ chainOut = empty_yf_frame

IdleChain ==
    /\ chainIn = [symbol |-> None]
    /\ chain = [ChainIdleState EXCEPT !.pc = "off"]
    /\ chainOut = empty_yf_frame

\* build_quotes_df enters _fetch_index_quotes_with_source: the mapping lookup
\* and the resolution of the source order
ChainResolve ==
    /\ chain.pc = "idle"
    /\ LET spec == source_spec(chainIn.symbol)
       IN  IF spec = None
           THEN /\ chain' = [chain EXCEPT !.pc = "done"]
                /\ chainOut' = build_quotes_df(chainIn.symbol, empty_yf_frame, None)
           ELSE /\ chain' = [chain EXCEPT !.pc = "loop",
                                          !.order = resolve_source_order(spec, chainIn.env)]
                /\ chainOut' = chainOut
    /\ UNCHANGED <<notChain, chainIn>>

\* one iteration of the loop over the resolved order
ChainTry ==
    /\ chain.pc = "loop"
    /\ chain.i <= Len(chain.order)
    /\ LET source_key == chain.order[chain.i]
           spec == source_spec(chainIn.symbol)
       IN  IF spec[source_key] = "" \/ source_key \notin FETCH_DISPATCH
           THEN /\ chain' = [chain EXCEPT !.i = @ + 1]
                /\ chainOut' = chainOut
           ELSE IF chainIn.outcome[source_key] = "rows"
           THEN /\ chain' = [chain EXCEPT !.pc = "done", !.calls = Append(@, source_key)]
                /\ chainOut' = build_quotes_df(chainIn.symbol, fetched_frame(source_key),
                                               source_key)
           ELSE /\ chain' = [chain EXCEPT !.i = @ + 1, !.calls = Append(@, source_key)]
                /\ chainOut' = chainOut
    /\ UNCHANGED <<notChain, chainIn>>

\* the loop ends without a non-empty frame
ChainExhausted ==
    /\ chain.pc = "loop"
    /\ chain.i > Len(chain.order)
    /\ chain' = [chain EXCEPT !.pc = "done"]
    /\ chainOut' = build_quotes_df(chainIn.symbol, empty_yf_frame, None)
    /\ UNCHANGED <<notChain, chainIn>>

NextChain == ChainResolve \/ ChainTry \/ ChainExhausted

\* the candidate sources of the run's symbol
Candidates ==
    IF source_spec(chainIn.symbol) = None THEN {}
    ELSE DOMAIN source_spec(chainIn.symbol) \cap FETCH_DISPATCH

FirstIndex(seq, x) == CHOOSE i \in 1..Len(seq) : seq[i] = x /\ \A j \in 1..(i - 1) : seq[j] # x

\* position of a key in the configured order followed by the default order
Rank(key) ==
    LET all == configured_sources(chainIn.env) \o default_order
    IN  FirstIndex(all, key)

\* C12: the candidate sources of a symbol are called in resolved order (keys
\* of INDEX_QUOTE_SOURCES first, then the default order, each at most once);
\* a source that returns an empty frame or raises is passed over; the frame
\* returned is that of the first source with rows, tagged with its key, and
\* no later source is called; if every source is empty or fails the result
\* is an empty frame.
C12_SourcesInOrder ==
    LET calls == chain.calls
        n == Len(calls)
        winners == { k \in Candidates : chainIn.outcome[k] = "rows" }
    IN  /\ \A i \in 1..n : calls[i] \in Candidates
        /\ \A i \in 1..n, j \in 1..n : i < j => Rank(calls[i]) < Rank(calls[j])
        /\ \A i \in 1..(n - 1) : chainIn.outcome[calls[i]] # "rows"
        /\ \A i \in 1..n : \A k \in Candidates :
              Rank(k) < Rank(calls[i]) => \E j \in 1..(i - 1) : calls[j] = k
        /\ chain.pc = "done" =>
              IF winners = {}
              THEN /\ chainOut.empty
                   /\ \A k \in Candidates : \E i \in 1..n : calls[i] = k
              ELSE LET w == CHOOSE k \in winners : \A k2 \in winners : Rank(k) <= Rank(k2)
                   IN  /\ ~chainOut.empty
                       /\ chainOut.fetched_by = w
                       /\ chainOut.source = w
                       /\ chainOut.symbol = chainIn.symbol
                       /\ calls[n] = w

\* a configured source raised, and the rows came from the next source
C12_Witness ==
    /\ chain.pc = "done"
    /\ chainIn.symbol = US_SPY
    /\ chain.calls = <<AKSHARE_US, YFINANCE>>
    /\ chainIn.outcome[AKSHARE_US] = "raise"
    /\ chainOut.source = YFINANCE

(***************************************************************************)
(* CN A-share daily quotes collector (stock/daily_quotes.py).              *)
(***************************************************************************)
\* Bound of the collector model: how many calls of the history endpoint the
\* upstream is scripted for.
MaxHistCalls == 2

\* columns of the frames _fetch_cn_stock_daily_ak returns
QuoteColumns ==
    { "date", "open", "high", "low", "close", "adj_close", "volume",
      "turnover_amount", "turnover_rate", "vwap", "limit_up", "limit_down",
      "is_suspended", "trading_status", "adj_factor" }

\* columns of the empty frame of the fallback branch
EmptyHistColumns ==
    { "date", "open", "high", "low", "close", "adj_close", "volume", "currency" }

HistStart == Ymd2Ord(2025, 9, 10)
HistEnd == Ymd2Ord(2025, 9, 10)

\* rows kept by (date >= start) & (date <= end)
in_range(dates, start, end) == { d \in dates : d >= start /\ d <= end }

\* build_cn_stock_quotes_df applied to the frame the fetch returned
build_cn_stock_quotes_df(symbol, base) ==
    IF base.dates = {} THEN base
    ELSE [base EXCEPT !.columns = @ \cup {"symbol"}, !.symbol = symbol]

UpstreamOutcomes == {"rows", "empty", "raise"}

HistInputs ==
    [ symbol : {<<"S", "H", "6", "0", "0", "5", "1", "9">>},
      start : {HistStart},
      end : {HistEnd},
      upstream_dates : SUBSET {HistStart - 1, HistStart},
      daily : UpstreamOutcomes,
      hist : [1..MaxHistCalls -> UpstreamOutcomes] ]

HistIdleState ==
    [pc |-> "idle", hist_calls |-> 0, status |-> "pending",
     frame |-> [columns |-> {}, dates |-> {}, symbol |-> None]]

InitHist ==
    /\ histIn \in { in \in HistInputs : in.upstream_dates # {} }
    /\ histSt = HistIdleState

IdleHist ==
    /\ histIn = [symbol |-> None]
    /\ histSt = [HistIdleState EXCEPT !.pc = "off"]

\* build_cn_stock_quotes_df enters _fetch_cn_stock_daily_ak: the call of
\* ak.stock_zh_a_daily inside the try block
HistCallDaily ==
    /\ histSt.pc = "idle"
    /\ histSt' = [histSt EXCEPT !.pc = IF histIn.daily = "raise" THEN "fallback" ELSE "normalize"]
    /\ UNCHANGED <<notHist, histIn>>

\* the daily frame is normalized and returned through build_cn_stock_quotes_df
HistNormalizeDaily ==
    /\ histSt.pc = "normalize"
    /\ LET dates == IF histIn.daily = "empty" THEN {}
                    ELSE in_range(histIn.upstream_dates, histIn.start, histIn.end)
           base == [columns |-> QuoteColumns, dates |-> dates, symbol |-> None]
       IN  histSt' = [histSt EXCEPT !.pc = "done", !.status = "returned",
                                    !.frame = build_cn_stock_quotes_df(histIn.symbol, base)]
    /\ UNCHANGED <<notHist, histIn>>

\* the except branch: one call of ak.stock_zh_a_hist, outside any try block
HistCallHist ==
    /\ histSt.pc = "fallback"
    /\ histSt.hist_calls < MaxHistCalls
    /\ LET n == histSt.hist_calls + 1
           outcome == histIn.hist[n]
           dates == in_range(histIn.upstream_dates, histIn.start, histIn.end)
           base == IF outcome = "empty"
                   THEN [columns |-> EmptyHistColumns, dates |-> {}, symbol |-> None]
                   ELSE [columns |-> QuoteColumns, dates |-> dates, symbol |-> None]
       IN  IF outcome = "raise"
           THEN histSt' = [histSt EXCEPT !.pc = "done", !.hist_calls = n, !.status = "raised"]
           ELSE histSt' = [histSt EXCEPT !.pc = "done", !.hist_calls = n,
                                         !.status = "returned",
                                         !.frame = build_cn_stock_quotes_df(histIn.symbol, base)]
    /\ UNCHANGED <<notHist, histIn>>

NextHist == HistCallDaily \/ HistNormalizeDaily \/ HistCallHist

\* C13: when the first call of the history endpoint fails with a transient
\* error and the next call would succeed with rows in range,
\* build_cn_stock_quotes_df retries and returns a non-empty normalized frame
\* with the columns symbol, date, open, close and turnover_rate, instead of
\* raising or returning empty.
C13_HistRetrySucceeds ==
    ( /\ histSt.pc = "done"
      /\ histSt.hist_calls >= 1
      /\ histIn.hist[1] = "raise"
      /\ histIn.hist[2] = "rows"
      /\ in_range(histIn.upstream_dates, histIn.start, histIn.end) # {} )
    => /\ histSt.status = "returned"
       /\ histSt.frame.dates # {}
       /\ {"symbol", "date", "open", "close", "turnover_rate"} \subseteq histSt.frame.columns

(***************************************************************************)
(* Company sync orchestration (financials.sync_companies_for_shard), run   *)
(* with shard_total = 1 and max_symbols = 0.  Catalog symbols are numbered. *)
(***************************************************************************)
\* Bound of the orchestration model: rows of the longest catalog.
MaxCatalog == 11

\* values of max_concurrency: the sequential path and a pool of two workers
Concurrencies == {1, 2}

\* capacity of errors_sample
ErrorsSampleCap == 10

sample_has_room_always(errors_sample) == TRUE

\* len(errors_sample) < 10
sample_has_room(errors_sample) == Len(errors_sample) < ErrorsSampleCap

\* errors_sample after a failure on sym
record_error(errors_sample, sym) ==
    IF sample_has_room(errors_sample) THEN Append(errors_sample, sym) ELSE errors_sample

SeqRange(seq) == { seq[i] : i \in 1..Len(seq) }

\* cat_df["symbol"].astype(str).dropna().drop_duplicates().tolist()
RECURSIVE drop_duplicates(_, _)
drop_duplicates(seq, acc) ==
    IF seq = <<>> THEN acc
    ELSE IF Head(seq) \in SeqRange(acc) THEN drop_duplicates(Tail(seq), acc)
    ELSE drop_duplicates(Tail(seq), Append(acc, Head(seq)))

\* idx_map: the catalog positions whose symbol is one of `symbols`, ascending
RECURSIVE idx_map_from(_, _, _)
idx_map_from(catalog, symbols, i) ==
    IF i > Len(catalog) THEN <<>>
    ELSE (IF catalog[i] \in SeqRange(symbols) THEN <<i>> ELSE <<>>)
         \o idx_map_from(catalog, symbols, i + 1)

idx_map(catalog) == idx_map_from(catalog, drop_duplicates(catalog, <<>>), 1)

\* catalogs: distinct symbols 1..n for up to four rows and for MaxCatalog rows,
\* and two catalogs that repeat a symbol
CompCatalogs ==
    { [i \in 1..n |-> i] : n \in (0..4) \cup {MaxCatalog} } \cup { <<1, 1>>, <<1, 2, 1>> }

\* rows whose processing raises: any set of rows for catalogs of up to four
\* rows; for longer ones no row, the first, the last, all, or all but the first
FailPatterns(n) ==
    IF n <= 4 THEN SUBSET (1..n)
    ELSE { {}, {1}, {n}, 1..n, 2..n }

CompInputs ==
    UNION { { [catalog |-> c, fails |-> F, max_concurrency |-> k] :
                F \in FailPatterns(Len(c)), k \in Concurrencies } :
            c \in CompCatalogs }

CompIdleState ==
    [pc |-> "idle", i |-> 1, started |-> 0, running |-> {}, completed |-> <<>>,
     collected |-> 0, processed |-> {}, ok_count |-> 0, errors_sample |-> <<>>]

CompPending == [status |-> "pending"]

InitComp ==
    /\ compIn \in CompInputs
    /\ compSt = CompIdleState
    /\ compOut = CompPending

IdleComp ==
    /\ compIn = [catalog |-> <<>>]
    /\ compSt = [CompIdleState EXCEPT !.pc = "off"]
    /\ compOut = CompPending

\* the catalog is read; an empty catalog returns at once, otherwise the
\* sequential or the thread-pool path is taken
CompStart ==
    /\ compSt.pc = "idle"
    /\ IF compIn.catalog = <<>>
       THEN /\ compSt' = [compSt EXCEPT !.pc = "done"]
            /\ compOut' = [status |-> "returned", companies_upserted |-> 0,
                           total_symbols |-> 0, failed |-> 0, skipped |-> TRUE,
                           errors_sample |-> <<>>]
       ELSE /\ compSt' = [compSt EXCEPT !.pc = IF compIn.max_concurrency <= 1
                                                THEN "seq" ELSE "pool"]
            /\ compOut' = compOut
    /\ UNCHANGED <<notComp, compIn>>

\* one iteration of the sequential loop: try / except Exception
CompSeqIterate ==
    /\ compSt.pc = "seq"
    /\ compSt.i <= Len(idx_map(compIn.catalog))
    /\ LET idx == idx_map(compIn.catalog)[compSt.i]
       IN  IF idx \in compIn.fails
           THEN compSt' = [compSt EXCEPT !.i = @ + 1, !.processed = @ \cup {idx},
                              !.errors_sample = record_error(@, compIn.catalog[idx])]
           ELSE compSt' = [compSt EXCEPT !.i = @ + 1, !.processed = @ \cup {idx},
                              !.ok_count = @ + 1]
    /\ UNCHANGED <<notComp, compIn, compOut>>

\* a free pool worker takes the next submitted task
CompWorkStart ==
    /\ compSt.pc = "pool"
    /\ compSt.started < Len(idx_map(compIn.catalog))
    /\ Cardinality(compSt.running) < Max(1, compIn.max_concurrency)
    /\ compSt' = [compSt EXCEPT !.started = @ + 1, !.running = @ \cup {compSt.started + 1}]
    /\ UNCHANGED <<notComp, compIn, compOut>>

\* _work returns for task t: {"symbol", "ok": True} or {"symbol", "ok": False, "error"}
CompWorkFinish(t) ==
    /\ compSt.pc = "pool"
    /\ t \in compSt.running
    /\ LET idx == idx_map(compIn.catalog)[t]
       IN  compSt' = [compSt EXCEPT !.running = @ \ {t},
                         !.processed = @ \cup {idx},
                         !.completed = Append(@, [symbol |-> compIn.catalog[idx],
                                                  ok |-> idx \notin compIn.fails])]
    /\ UNCHANGED <<notComp, compIn, compOut>>

\* the main thread takes the next completed future from as_completed;
\* `completed` holds the futures that are finished and not yet taken
CompCollect ==
    /\ compSt.pc = "pool"
    /\ compSt.completed # <<>>
    /\ LET res == Head(compSt.completed)
       IN  IF res.ok
           THEN compSt' = [compSt EXCEPT !.collected = @ + 1, !.completed = Tail(@),
                              !.ok_count = @ + 1]
           ELSE compSt' = [compSt EXCEPT !.collected = @ + 1, !.completed = Tail(@),
                              !.errors_sample = record_error(@, res.symbol)]
    /\ UNCHANGED <<notComp, compIn, compOut>>

\* both paths end in the same return statement
CompReturn ==
    /\ compSt.pc \in {"seq", "pool"}
    /\ IF compSt.pc = "seq"
       THEN compSt.i > Len(idx_map(compIn.catalog))
       ELSE compSt.collected = Len(idx_map(compIn.catalog))
    /\ compSt' = [compSt EXCEPT !.pc = "done"]
    /\ compOut' = [status |-> "returned", companies_upserted |-> compSt.ok_count,
                   total_symbols |-> Len(drop_duplicates(compIn.catalog, <<>>)),
                   failed |-> Len(idx_map(compIn.catalog)) - compSt.ok_count,
                   skipped |-> FALSE, errors_sample |-> compSt.errors_sample]
    /\ UNCHANGED <<notComp, compIn>>

NextComp ==
    \/ CompStart
    \/ CompSeqIterate
    \/ CompWorkStart
    \/ \E t \in 1..MaxCatalog : CompWorkFinish(t)
    \/ CompCollect
    \/ CompReturn

\* catalog rows of the run, and those whose processing raises
CompRows == 1..Len(compIn.catalog)
CompFailing == compIn.fails \cap CompRows

\* C14: on the sequential and on the thread-pool path, for every failure
\* pattern and interleaving, a failure on one symbol does not stop the run:
\* when the function returns every row has been processed, it returns the
\* aggregate counts (it never raises), and errors_sample never holds more
\* than 10 entries.
C14_FailuresAreContained ==
    /\ Len(compSt.errors_sample) <= 10
    /\ compOut.status \in {"pending", "returned"}
    /\ compSt.pc = "done" =>
          /\ compOut.status = "returned"
          /\ compSt.processed = CompRows
          /\ compOut.companies_upserted = Cardinality(CompRows \ CompFailing)
          /\ compOut.failed = Cardinality(CompFailing)
          /\ Len(compOut.errors_sample) = IF Cardinality(CompFailing) < 10
                                          THEN Cardinality(CompFailing) ELSE 10
          /\ SeqRange(compOut.errors_sample) \subseteq
                { compIn.catalog[i] : i \in CompFailing }

\* a pool run in which eleven rows failed and all were processed
C14_Witness ==
    /\ compSt.pc = "done"
    /\ compIn.max_concurrency = 2
    /\ Cardinality(CompFailing) = 11
    /\ compOut.failed = 11
    /\ Len(compOut.errors_sample) = 10

\* rows for which company_put was called and returned normally: the rows
\* whose processing did not raise
CompPutRows == compSt.processed \ compIn.fails

\* C39: for every catalog, also one that lists a symbol on more than one
\* row, on the sequential and on the thread-pool path, company_put is called
\* at most once per distinct symbol of the shard, and the result satisfies
\* companies_upserted + failed = total_symbols with companies_upserted the
\* number of company_put calls that returned normally.
C39_OnePutPerSymbol ==
    (compSt.pc = "done" /\ ~compOut.skipped) =>
        /\ \A i, j \in CompPutRows : compIn.catalog[i] = compIn.catalog[j] => i = j
        /\ compOut.companies_upserted + compOut.failed = compOut.total_symbols
        /\ compOut.companies_upserted = Cardinality(CompPutRows)

(***************************************************************************)
(* Backtest engine (backtest/engine.py).  Floats are modelled as exact     *)
(* rationals <<numerator, denominator>> in lowest terms, denominator > 0.  *)
(***************************************************************************)
RECURSIVE GCD(_, _)
GCD(a, b) == IF b = 0 THEN a ELSE GCD(b, a % b)

Abs(n) == IF n < 0 THEN -n ELSE n

Rat(n, d) == LET g == GCD(Abs(n), d) IN <<n \div g, d \div g>>

Zero == <<0, 1>>
One == <<1, 1>>
Half == <<1, 2>>

RNeg(x) == <<-x[1], x[2]>>
RAdd(x, y) ==
    LET g == GCD(x[2], y[2])
    IN  Rat(x[1] * (y[2] \div g) + y[1] * (x[2] \div g), (x[2] \div g) * y[2])
RSub(x, y) == RAdd(x, RNeg(y))
RMul(x, y) ==
    LET g1 == GCD(Abs(x[1]), y[2])
        g2 == GCD(Abs(y[1]), x[2])
    IN  <<(x[1] \div g1) * (y[1] \div g2), (x[2] \div g2) * (y[2] \div g1)>>
RInv(x) == IF x[1] < 0 THEN <<-x[2], -x[1]>> ELSE <<x[2], x[1]>>
RDiv(x, y) == RMul(x, RInv(y))
RLt(x, y) == RSub(x, y)[1] < 0
RLe(x, y) == RSub(x, y)[1] <= 0
RMax(x, y) == IF RLt(x, y) THEN y ELSE x
RMin(x, y) == IF RLt(y, x) THEN y ELSE x

\* x > 1/k for a positive integer k, without forming k * numerator
GtInv(x, k) == x[1] > 0 /\ (x[2] \div x[1]) < k

\* eps = 1e-8 of Portfolio.rebalance, as 1/EpsInv
EpsInv == 100000000
\* the cash tolerance 1e-6 of the buy loop, as 1/TolInv
TolInv == 1000000

\* x > eps, x <= eps
GtEps(x) == GtInv(x, EpsInv)
LeEps(x) == ~GtEps(x)

AAA == "AAA"
BBB == "BBB"
BtSymbols == {AAA, BBB}

\* BacktestConfig.slippage_bps / 10_000.0 and transaction_cost_bps / 10_000.0
slippage_factor(config) == Rat(config.slippage_bps, 10000)
fee_factor(config) == Rat(config.transaction_cost_bps, 10000)

\* Portfolio.__init__
new_portfolio(config) ==
    [cash |-> config.initial_capital, positions |-> <<>>,
     total_value |-> config.initial_capital, last_price_map |-> <<>>]

resolve_price_assumed(symbol, price_snapshot) ==
    IF symbol \in DOMAIN price_snapshot /\ price_snapshot[symbol] # None
           /\ price_snapshot[symbol][1] > 0
    THEN price_snapshot[symbol] ELSE One

\* _resolve_price: None when the snapshot has no usable price for the symbol
resolve_price(symbol, price_snapshot) ==
    IF symbol \notin DOMAIN price_snapshot THEN None
    ELSE IF price_snapshot[symbol] = None THEN None
    ELSE IF price_snapshot[symbol][1] > 0 THEN price_snapshot[symbol] ELSE None

mark_price_stale(p, symbol, price_snapshot) ==
    IF symbol \in DOMAIN p.last_price_map THEN p.last_price_map[symbol] ELSE None

\* the price mark_to_market uses: the snapshot's, else the last known one
mark_price(p, symbol, price_snapshot) ==
    IF resolve_price(symbol, price_snapshot) # None
    THEN resolve_price(symbol, price_snapshot)
    ELSE IF symbol \in DOMAIN p.last_price_map THEN p.last_price_map[symbol] ELSE None

RECURSIVE positions_value(_, _, _)
positions_value(p, price_map, S) ==
    IF S = {} THEN Zero
    ELSE LET s == CHOOSE x \in S : TRUE
         IN  RAdd(RMul(p.positions[s].quantity, price_map[s]),
                  positions_value(p, price_map, S \ {s}))

mark_to_market_snapshot_only(p, price_snapshot) ==
    LET priced == { s \in DOMAIN p.positions : resolve_price(s, price_snapshot) # None }
        price_map == [s \in priced |-> resolve_price(s, price_snapshot)]
    IN  [p EXCEPT !.last_price_map = price_map,
                  !.total_value = RAdd(p.cash, positions_value(p, price_map, priced))]

\* Portfolio.mark_to_market
mark_to_market(p, price_snapshot) ==
    LET priced == { s \in DOMAIN p.positions : mark_price(p, s, price_snapshot) # None }
        price_map == [s \in priced |-> mark_price(p, s, price_snapshot)]
    IN  [p EXCEPT !.last_price_map = price_map,
                  !.total_value = RAdd(p.cash, positions_value(p, price_map, priced))]

\* sorted(weights.items(), key=weight, reverse=True): one insertion of a stable
\* descending sort
RECURSIVE insert_desc(_, _)
insert_desc(sorted, item) ==
    IF sorted = <<>> THEN <<item>>
    ELSE IF RLt(Head(sorted)[2], item[2]) THEN <<item>> \o sorted
    ELSE <<Head(sorted)>> \o insert_desc(Tail(sorted), item)

RECURSIVE sort_desc(_, _)
sort_desc(items, sorted) ==
    IF items = <<>> THEN sorted
    ELSE sort_desc(Tail(items), insert_desc(sorted, Head(items)))

weight_in(pairs, symbol) ==
    pairs[CHOOSE i \in 1..Len(pairs) : pairs[i][1] = symbol][2]

\* _prepare_weights; target_weights is the strategy's dict as a sequence of
\* <<symbol, weight>> in insertion order
prepare_weights(target_weights, existing_symbols, max_positions) ==
    LET weights == [i \in 1..Len(target_weights) |->
                       <<target_weights[i][1], RMax(target_weights[i][2], Zero)>>]
        positive == sort_desc(weights, <<>>)
        top == SubSeq(positive, 1, IF max_positions < Len(positive)
                                   THEN max_positions ELSE Len(positive))
        kept == { top[i][1] : i \in 1..Len(top) }
    IN  [s \in kept \cup existing_symbols |->
            IF s \in kept THEN weight_in(top, s) ELSE Zero]

RECURSIVE weight_sum(_, _)
weight_sum(w, S) ==
    IF S = {} THEN Zero
    ELSE LET s == CHOOSE x \in S : TRUE
         IN  RAdd(RMax(w[s], Zero), weight_sum(w, S \ {s}))

\* the weights after the weight_sum > 1.0 rescaling
normalize_weights(w) ==
    LET total == weight_sum(w, DOMAIN w)
    IN  IF RLt(One, total)
        THEN [s \in DOMAIN w |-> RMul(RMax(w[s], Zero), RDiv(One, total))]
        ELSE w

\* the loop over all_symbols that builds sell_orders and buy_orders; `order`
\* is the iteration order of the set all_symbols
RECURSIVE make_orders(_, _, _, _, _, _)
make_orders(p, weights, price_snapshot, pre_trade_equity, order, acc) ==
    IF order = <<>> THEN acc
    ELSE LET symbol == Head(order)
             target_weight == IF symbol \in DOMAIN weights THEN weights[symbol] ELSE Zero
             price == resolve_price(symbol, price_snapshot)
             current_qty == IF symbol \in DOMAIN p.positions
                            THEN p.positions[symbol].quantity ELSE Zero
             desired_value == RMul(target_weight, pre_trade_equity)
             desired_qty == RDiv(desired_value, price)
             delta_qty == RSub(desired_qty, current_qty)
             next == IF price = None THEN acc
                     ELSE IF GtEps(RNeg(delta_qty))
                     THEN [acc EXCEPT !.sell = Append(@, <<symbol, RNeg(delta_qty), price>>)]
                     ELSE IF GtEps(delta_qty)
                     THEN [acc EXCEPT !.buy = Append(@, <<symbol, delta_qty, price>>)]
                     ELSE acc
         IN  make_orders(p, weights, price_snapshot, pre_trade_equity, Tail(order), next)

traded_notional_with_slippage(qty, price, config) ==
    RMul(qty, RMul(price, RAdd(One, slippage_factor(config))))

\* turnover_value += qty * price
traded_notional(qty, price, config) == RMul(qty, price)

without(f, key) ==
    IF (DOMAIN f) \ {key} = {} THEN <<>> ELSE [k \in (DOMAIN f) \ {key} |-> f[k]]
with(f, key, value) == [k \in (DOMAIN f) \cup {key} |-> IF k = key THEN value ELSE f[k]]

\* the sell loop; st carries cash, positions, trades and turnover_value, and
\* fills: the orders executed so far, <<side, symbol, qty, price>> in order
RECURSIVE execute_sells(_, _, _, _)
execute_sells(st, sell_orders, config, current_date) ==
    IF sell_orders = <<>> THEN st
    ELSE LET symbol == Head(sell_orders)[1]
             price == Head(sell_orders)[3]
             held == symbol \in DOMAIN st.positions
             position == st.positions[symbol]
             qty == RMin(Head(sell_orders)[2], position.quantity)
             effective_price == RMul(price, RSub(One, slippage_factor(config)))
             gross_proceeds == RMul(qty, effective_price)
             transaction_cost == RMul(RMul(qty, price), fee_factor(config))
             cash_received == RSub(gross_proceeds, transaction_cost)
             cost_basis == RMul(qty, position.avg_price)
             profit == RSub(cash_received, cost_basis)
             left == RSub(position.quantity, qty)
             trade == [symbol |-> symbol, entry_date |-> position.entry_date,
                       exit_date |-> current_date, quantity |-> qty,
                       entry_price |-> position.avg_price, exit_price |-> price,
                       profit |-> profit]
             next == IF ~held \/ LeEps(Head(sell_orders)[2]) THEN st
                     ELSE [cash |-> RAdd(st.cash, cash_received),
                           positions |-> IF LeEps(left) THEN without(st.positions, symbol)
                                         ELSE with(st.positions, symbol,
                                                   [position EXCEPT !.quantity = left]),
                           trades |-> Append(st.trades, trade),
                           turnover_value |-> RAdd(st.turnover_value,
                                                  traded_notional(qty, price, config)),
                           fills |-> Append(st.fills, <<"sell", symbol, qty, price>>)]
         IN  execute_sells(next, Tail(sell_orders), config, current_date)

\* cash one buy order requires: qty * price * (1 + slippage) + qty * price * fee
cash_required(qty, price, config) ==
    RAdd(RMul(qty, RMul(price, RAdd(One, slippage_factor(config)))),
         RMul(RMul(qty, price), fee_factor(config)))

RECURSIVE estimated_cash_needed(_, _)
estimated_cash_needed(buy_orders, config) ==
    IF buy_orders = <<>> THEN Zero
    ELSE RAdd(cash_required(Head(buy_orders)[2], Head(buy_orders)[3], config),
              estimated_cash_needed(Tail(buy_orders), config))

\* the buy orders after the cash / estimated_cash_needed scaling
scale_buys(buy_orders, cash, config) ==
    LET needed == estimated_cash_needed(buy_orders, config)
    IN  IF RLt(cash, needed) /\ RLt(Zero, needed)
        THEN [i \in 1..Len(buy_orders) |->
                 <<buy_orders[i][1], RMul(buy_orders[i][2], RDiv(cash, needed)),
                   buy_orders[i][3]>>]
        ELSE buy_orders

\* Position(symbol, quantity=0.0, avg_price=0.0, entry_date=current_date)
new_position(symbol, current_date) ==
    [quantity |-> Zero, avg_price |-> Zero, entry_date |-> current_date]

\* not (cash_required > self.cash + 1e-6)
can_afford(required, cash) == ~GtInv(RSub(required, cash), TolInv)

cash_after_buy_unpaid(cash, required) == cash

\* self.cash -= cash_required
cash_after_buy(cash, required) == RSub(cash, required)

is_fresh_entry_always(quantity, qty) == TRUE

\* position.quantity - qty <= eps: the position was opened by this buy
is_fresh_entry(quantity, qty) == LeEps(RSub(quantity, qty))

\* the buy loop
RECURSIVE execute_buys(_, _, _, _)
execute_buys(st, buy_orders, config, current_date) ==
    IF buy_orders = <<>> THEN st
    ELSE LET symbol == Head(buy_orders)[1]
             qty == Head(buy_orders)[2]
             price == Head(buy_orders)[3]
             required == cash_required(qty, price, config)
             position == IF symbol \in DOMAIN st.positions THEN st.positions[symbol]
                         ELSE new_position(symbol, current_date)
             total_cost == RAdd(RMul(position.quantity, position.avg_price), required)
             quantity == RAdd(position.quantity, qty)
             bought == [quantity |-> quantity,
                        avg_price |-> IF GtEps(quantity) THEN RDiv(total_cost, quantity)
                                      ELSE position.avg_price,
                        entry_date |-> IF GtEps(quantity) /\ is_fresh_entry(quantity, qty)
                                       THEN current_date ELSE position.entry_date]
             next == IF LeEps(qty) \/ ~can_afford(required, st.cash) THEN st
                     ELSE [st EXCEPT !.cash = cash_after_buy(@, required),
                                     !.positions = with(@, symbol, bought),
                                     !.turnover_value = RAdd(@, traded_notional(qty, price, config)),
                                     !.fills = Append(@, <<"buy", symbol, qty, price>>)]
         IN  execute_buys(next, Tail(buy_orders), config, current_date)

buy_budget_before_sells(start, sold) == start.cash

\* self.cash where the buys are sized: the cash the sell loop left
buy_budget(start, sold) == sold.cash

\* Portfolio.rebalance: the portfolio after it, the closed trades and the
\* turnover it returns; fills and buy_cash record the orders it executed, in
\* order, and the cash it sized the buys with
rebalance(p, target_weights, price_snapshot, current_date, order, config) ==
    LET pre_trade_equity == p.total_value
        weights == normalize_weights(
                       prepare_weights(target_weights, DOMAIN p.positions,
                                       config.max_positions))
        orders == make_orders(p, weights, price_snapshot, pre_trade_equity, order,
                              [sell |-> <<>>, buy |-> <<>>])
        start == [cash |-> p.cash, positions |-> p.positions, trades |-> <<>>,
                  turnover_value |-> Zero, fills |-> <<>>]
        sold == execute_sells(start, orders.sell, config, current_date)
        budget == buy_budget(start, sold)
        done == execute_buys(sold, scale_buys(orders.buy, budget, config), config,
                             current_date)
    IN  IF RLe(pre_trade_equity, Zero)
        THEN [portfolio |-> p, trades |-> <<>>, turnover |-> Zero, fills |-> <<>>,
              buy_cash |-> p.cash]
        ELSE [portfolio |-> [p EXCEPT !.cash = done.cash, !.positions = done.positions],
              trades |-> done.trades,
              turnover |-> RDiv(done.turnover_value, pre_trade_equity),
              fills |-> done.fills, buy_cash |-> budget]

\* the symbols rebalance iterates over: set(normalized_weights) | set(positions)
all_symbols(p, target_weights, config) ==
    DOMAIN prepare_weights(target_weights, DOMAIN p.positions, config.max_positions)

\* the iteration orders of a set
Orderings(S) ==
    { seq \in [1..Cardinality(S) -> S] : \A i, j \in 1..Cardinality(S) : i # j => seq[i] # seq[j] }

\* str.lower() on the letters frequencies are written with
LowerChar(c) ==
    CASE c = "D" -> "d" [] c = "W" -> "w" [] c = "M" -> "m" [] OTHER -> c

Lower(s) == [i \in 1..Len(s) |-> LowerChar(s[i])]

\* str.isdigit(): non-empty and every character a decimal digit
isdigit(s) == s # <<>> /\ \A i \in 1..Len(s) : Ord(s[i]) \in 48..57

Daily == <<"d", "a", "i", "l", "y">>
Weekly == <<"w", "e", "e", "k", "l", "y">>
Monthly == <<"m", "o", "n", "t", "h", "l", "y">>

\* date.weekday(): Monday is 0, Friday is 4
weekday(d) == (d + 6) % 7

\* the label of the resample("W-FRI") bin of a date: the Friday that ends its week
week_anchor(d) == d + ((4 - weekday(d) + 7) % 7)

\* the label of the resample("M") bin of a date: the last day of its month
month_anchor(d) ==
    LET ymd == Ord2Ymd(d) IN Ymd2Ord(ymd[1], ymd[2], DaysInMonth(ymd[1], ymd[2]))

\* pd.Series(1, index=idx).resample(rule).last().dropna().index: the labels of
\* the bins that hold a date, ascending
resample_anchors(dates, frequency) ==
    drop_duplicates([i \in 1..Len(dates) |->
                       IF frequency = Weekly THEN week_anchor(dates[i])
                       ELSE month_anchor(dates[i])], <<>>)

\* the loop over anchors: eligible = idx[idx <= anchor], or idx[:1] when that
\* is empty; eligible[-1] is appended
map_anchor(dates, anchor) ==
    LET eligible == SelectSeq(dates, LAMBDA d : d <= anchor)
    IN  IF eligible = <<>> THEN dates[1] ELSE eligible[Len(eligible)]

\* idx[::step]
RECURSIVE every_nth(_, _, _)
every_nth(dates, step, i) ==
    IF i > Len(dates) THEN <<>> ELSE <<dates[i]>> \o every_nth(dates, step, i + step)

step_stride_plus_one(step) == step + 1

\* max(step, 1)
step_stride(step) == IF step >= 1 THEN step ELSE 1

\* _compute_rebalance_dates(dates, frequency): the dates returned, or the
\* BacktestError raised for an unsupported frequency
compute_rebalance_dates(dates, frequency) ==
    LET freq == Lower(frequency)
    IN  IF freq = Daily THEN [raised |-> FALSE, dates |-> dates]
        ELSE IF freq \in {Weekly, Monthly} THEN
            LET anchors == resample_anchors(dates, freq)
            IN  [raised |-> FALSE,
                 dates |-> drop_duplicates([i \in 1..Len(anchors) |-> map_anchor(dates, anchors[i])], <<>>)]
        ELSE IF freq # <<>> /\ freq[Len(freq)] = "d" /\ isdigit(SubSeq(freq, 1, Len(freq) - 1)) THEN
            [raised |-> FALSE,
             dates |-> every_nth(dates, step_stride(ToInt(SubSeq(freq, 1, Len(freq) - 1))), 1)]
        ELSE [raised |-> TRUE, error |-> "BacktestError"]

\* Bound of the engine model: dates of the price index.
MaxDates == 3

BtFirstDate == Ymd2Ord(2023, 1, 2)

\* the date at position t of the index
date_at(t) == BtFirstDate + (t - 1)

P10 == <<10, 1>>
P15 == <<15, 1>>

\* price rows of one date: the symbols with a row, and their price
Snapshots ==
    { (AAA :> P10 @@ BBB :> P10), (AAA :> P15 @@ BBB :> P10), (AAA :> P10), (AAA :> P15), (BBB :> P10) }

Panels == [1..MaxDates -> Snapshots]

\* dicts a strategy returns from on_rebalance, in insertion order
NoTargets == <<>>
OnlyA == << <<AAA, One>> >>
OnlyB == << <<BBB, One>> >>
HalfA == << <<AAA, Half>> >>
HalfEach == << <<AAA, Half>>, <<BBB, Half>> >>
FullEach == << <<AAA, One>>, <<BBB, One>> >>

\* strategies: the k-th call of on_rebalance returns the ((k - 1) mod length)-th dict
Strategies ==
    { <<OnlyA>>, <<HalfEach>>, <<HalfA, OnlyB>>, <<OnlyA, NoTargets>>,
      <<FullEach, HalfA>>, <<OnlyA, OnlyB>>, <<HalfA, OnlyA>> }

on_rebalance(strategy, k) == strategy[((k - 1) % Len(strategy)) + 1]

InitialCapital == <<100000, 1>>

Configs ==
    [ initial_capital : {InitialCapital},
      rebalance_frequency : {Daily},
      max_positions : {1, 2},
      slippage_bps : {0, 2500, 6000},
      transaction_cost_bps : {0, 2500, 6000} ]

BtInputs ==
    [ config : { c \in Configs : c.slippage_bps = c.transaction_cost_bps },
      panel : Panels,
      strategy : Strategies ]

\* the dates of the price index, ascending
BtDates == [t \in 1..MaxDates |-> date_at(t)]

BtIdleState ==
    [pc |-> "idle", t |-> 1, portfolio |-> new_portfolio([initial_capital |-> Zero]),
     calls |-> 0, equity_curve |-> <<>>, turnover_series |-> <<>>, trades |-> <<>>,
     pre |-> new_portfolio([initial_capital |-> Zero]), turnover |-> Zero,
     opened |-> <<>>, trade_opened |-> <<>>,
     rebalanced |-> [fills |-> <<>>, buy_cash |-> Zero, trades |-> <<>>]]

BtPending == [status |-> "pending"]

InitBt ==
    /\ btIn \in BtInputs
    /\ bt = BtIdleState
    /\ btOut = BtPending

IdleBt ==
    /\ btIn = [panel |-> <<>>]
    /\ bt = [BtIdleState EXCEPT !.pc = "off"]
    /\ btOut = BtPending

\* run() up to the event loop: the portfolio is created
BtInitialize ==
    /\ bt.pc = "idle"
    /\ bt' = [bt EXCEPT !.pc = "mark", !.portfolio = new_portfolio(btIn.config),
                        !.pre = new_portfolio(btIn.config)]
    /\ UNCHANGED <<notBt, btIn, btOut>>

\* portfolio.mark_to_market(snapshot) at the top of an iteration
BtMarkToMarket ==
    /\ bt.pc = "mark"
    /\ bt' = [bt EXCEPT
                !.portfolio = mark_to_market(@, btIn.panel[bt.t]),
                !.pc = IF date_at(bt.t) \in SeqRange(compute_rebalance_dates(BtDates,
                                               btIn.config.rebalance_frequency).dates)
                       THEN "rebalance" ELSE "append"]
    /\ UNCHANGED <<notBt, btIn, btOut>>

\* on a rebalance date: strategy.on_rebalance, portfolio.rebalance, the
\* bookkeeping of turnover and trades, and the second mark_to_market
BtRebalance ==
    /\ bt.pc = "rebalance"
    /\ LET target_weights == on_rebalance(btIn.strategy, bt.calls + 1)
           snapshot == btIn.panel[bt.t]
       IN  \E order \in Orderings(all_symbols(bt.portfolio, target_weights, btIn.config)) :
              \E r \in { rebalance(bt.portfolio, target_weights, snapshot, date_at(bt.t),
                                   order, btIn.config) } :
                  bt' = [bt EXCEPT
                    !.pc = "append",
                    !.calls = @ + 1,
                    !.pre = bt.portfolio,
                    !.portfolio = mark_to_market(r.portfolio, snapshot),
                    !.turnover = r.turnover,
                    !.turnover_series = IF RLt(Zero, r.turnover)
                                        THEN Append(@, <<date_at(bt.t), r.turnover>>)
                                        ELSE @,
                    !.trades = @ \o r.trades,
                    !.rebalanced = [fills |-> r.fills, buy_cash |-> r.buy_cash,
                                    trades |-> r.trades],
                    !.trade_opened = @ \o [i \in 1..Len(r.trades) |->
                                              bt.opened[r.trades[i].symbol]],
                    !.opened = [s \in DOMAIN r.portfolio.positions |->
                                   IF s \in DOMAIN bt.portfolio.positions THEN bt.opened[s]
                                   ELSE date_at(bt.t)]]
    /\ UNCHANGED <<notBt, btIn, btOut>>

\* equity_curve.append((current_date, portfolio.total_value)); next date
BtAppendEquity ==
    /\ bt.pc = "append"
    /\ bt' = [bt EXCEPT
                !.equity_curve = Append(@, <<date_at(bt.t), bt.portfolio.total_value>>),
                !.t = @ + 1,
                !.pc = IF bt.t < Len(btIn.panel) THEN "mark" ELSE "finish"]
    /\ UNCHANGED <<notBt, btIn, btOut>>

\* Portfolio.positions_summary
positions_summary(p) ==
    [s \in DOMAIN p.positions |->
        LET market_price == IF s \in DOMAIN p.last_price_map THEN p.last_price_map[s]
                            ELSE Zero
        IN  [quantity |-> p.positions[s].quantity, avg_price |-> p.positions[s].avg_price,
             market_price |-> market_price,
             market_value |-> RMul(p.positions[s].quantity, market_price)]]

\* the statistics and the BacktestResult
BtFinish ==
    /\ bt.pc = "finish"
    /\ bt' = [bt EXCEPT !.pc = "done"]
    /\ btOut' =
         LET n == Len(bt.equity_curve)
         IN  [status |-> "result",
              equity_curve |-> bt.equity_curve,
              total_return |-> IF n > 1
                               THEN RSub(RDiv(bt.equity_curve[n][2], bt.equity_curve[1][2]), One)
                               ELSE Zero,
              num_trades |-> Len(bt.trades),
              trades |-> bt.trades,
              ending_positions |-> positions_summary(bt.portfolio),
              ending_cash |-> bt.portfolio.cash]
    /\ UNCHANGED <<notBt, btIn>>

NextBt == BtInitialize \/ BtMarkToMarket \/ BtRebalance \/ BtAppendEquity \/ BtFinish

\* C15: for every strategy output and every price panel, the number of open
\* positions at the end of the run (ending_positions) is at most max_positions.
C15_EndingPositionsBounded ==
    bt.pc = "done" =>
        Cardinality(DOMAIN btOut.ending_positions) <= btIn.config.max_positions

\* the dict the strategy returned to the latest rebalance, and the sum of its weights
LastTargets == on_rebalance(btIn.strategy, bt.calls)

RECURSIVE TargetSum(_)
TargetSum(target_weights) ==
    IF target_weights = <<>> THEN Zero
    ELSE RAdd(Head(target_weights)[2], TargetSum(Tail(target_weights)))

\* a rebalance has just returned: bt.pre is the portfolio it started from and
\* bt.portfolio the one it left
JustRebalanced == bt.pc = "append" /\ bt.calls >= 1

\* C16: starting from non-negative cash, after every rebalance whose target
\* weights sum to at most 1, cash >= -1e-6.  Buys are scaled to the cash and
\* guarded by can_afford; a sell adds qty x price x (1 - slippage - fee) to
\* the cash, which is negative when the two rates sum to more than 1.
C16_CashNotOverdrawn ==
    (JustRebalanced /\ RLe(Zero, bt.pre.cash) /\ RLe(TargetSum(LastTargets), One)) =>
        ~GtInv(RNeg(bt.portfolio.cash), TolInv)

\* C17: every TradeRecord of a run has quantity > 0 and exit_date >= entry_date,
\* where entry_date is the date on which the position was last opened from a
\* zero quantity.
C17_TradeRecordsDated ==
    \A i \in 1..Len(bt.trades) :
        /\ bt.trades[i].quantity[1] > 0
        /\ bt.trades[i].exit_date >= bt.trades[i].entry_date
        /\ bt.trades[i].entry_date = bt.trade_opened[i]

\* a position opened on the first date, added to on the second and partly
\* sold on the third
C17_Witness ==
    /\ Len(bt.trades) = 1
    /\ bt.trades[1].entry_date = date_at(1)
    /\ bt.trades[1].exit_date = date_at(3)
    /\ btIn.strategy = <<HalfA, OnlyA>>

\* quantity held of a symbol, 0 when there is no position
QtyHeld(p, s) == IF s \in DOMAIN p.positions THEN p.positions[s].quantity ELSE Zero

RAbs(x) == IF x[1] < 0 THEN RNeg(x) ELSE x

\* sum over the symbols of S of |change of quantity| x snapshot price
RECURSIVE ExecutedNotional(_, _, _, _)
ExecutedNotional(before, after, price_snapshot, S) ==
    IF S = {} THEN Zero
    ELSE LET s == CHOOSE x \in S : TRUE
             moved == RAbs(RSub(QtyHeld(after, s), QtyHeld(before, s)))
         IN  RAdd(IF moved = Zero THEN Zero ELSE RMul(moved, price_snapshot[s]),
                  ExecutedNotional(before, after, price_snapshot, S \ {s}))

\* C18: the turnover a rebalance returns is non-negative and equals the sum of
\* quantity x snapshot price over the sells and buys that were executed (the
\* quantities by which positions actually changed), divided by the equity
\* before the rebalance.
C18_TurnoverIsExecutedNotional ==
    JustRebalanced =>
        /\ RLe(Zero, bt.turnover)
        /\ RMul(bt.turnover, bt.pre.total_value) =
              ExecutedNotional(bt.pre, bt.portfolio, btIn.panel[bt.t], BtSymbols)

\* a rebalance that sold one symbol and bought the other with scaled buys
C18_Witness ==
    /\ JustRebalanced
    /\ btIn.config.slippage_bps > 0
    /\ Len(bt.trades) >= 1
    /\ RLt(Zero, bt.turnover)
    /\ RLt(QtyHeld(bt.pre, BBB), QtyHeld(bt.portfolio, BBB))
    /\ RLt(QtyHeld(bt.portfolio, AAA), QtyHeld(bt.pre, AAA))

\* a run on a single-symbol panel with the buy-and-hold strategy and no costs
BuyAndHold ==
    /\ btIn.strategy = <<OnlyA>>
    /\ btIn.config.slippage_bps = 0
    /\ btIn.config.transaction_cost_bps = 0
    /\ \A t \in 1..Len(btIn.panel) : DOMAIN btIn.panel[t] = {AAA}

\* C19: with a single symbol, a strategy returning weight 1.0 on every date,
\* daily rebalancing and zero slippage and fees, the engine buys once on the
\* first date and never sells: num_trades = 0, the equity on every date is
\* initial_capital x price(date) / price(first date), and total_return is the
\* underlying's return.
C19_BuyAndHoldReturn ==
    BuyAndHold =>
        /\ bt.trades = <<>>
        /\ bt.calls >= 1 =>
              QtyHeld(bt.portfolio, AAA) =
                  RDiv(btIn.config.initial_capital, btIn.panel[1][AAA])
        /\ \A t \in 1..Len(bt.equity_curve) :
              bt.equity_curve[t][2] =
                  RDiv(RMul(btIn.config.initial_capital, btIn.panel[t][AAA]),
                       btIn.panel[1][AAA])
        /\ bt.pc = "done" =>
              /\ btOut.num_trades = 0
              /\ btOut.total_return =
                    RSub(RDiv(btIn.panel[Len(btIn.panel)][AAA], btIn.panel[1][AAA]), One)

\* closes 10 -> 15: total_return 0.50
C19_Witness ==
    /\ BuyAndHold
    /\ bt.pc = "done"
    /\ btIn.panel[1][AAA] = P10
    /\ btIn.panel[Len(btIn.panel)][AAA] = P15
    /\ btOut.total_return = Half
    /\ btOut.num_trades = 0

\* the orders of one side among executed orders, in order
Side(fills, side) == SelectSeq(fills, LAMBDA f : f[1] = side)

\* cash the sells of a rebalance brought in: per closed trade, profit plus cost basis
RECURSIVE SellProceeds(_)
SellProceeds(trades) ==
    IF trades = <<>> THEN Zero
    ELSE RAdd(RAdd(Head(trades).profit, RMul(Head(trades).quantity, Head(trades).entry_price)),
              SellProceeds(Tail(trades)))

\* cash the executed buys took
RECURSIVE BuyCost(_, _)
BuyCost(fills, config) ==
    IF fills = <<>> THEN Zero
    ELSE RAdd(IF Head(fills)[1] = "buy" THEN cash_required(Head(fills)[3], Head(fills)[4], config)
              ELSE Zero,
              BuyCost(Tail(fills), config))

\* C26: within one rebalance every sell is executed before any buy is sized
\* or executed, so the cash that scales and funds the buys includes the
\* proceeds of all sells of that rebalance.
C26_SellsBeforeBuys ==
    bt.pc = "append" =>
        /\ \A i, j \in 1..Len(bt.rebalanced.fills) :
              (bt.rebalanced.fills[i][1] = "buy" /\ bt.rebalanced.fills[j][1] = "sell") => j < i
        /\ Len(Side(bt.rebalanced.fills, "sell")) = Len(bt.rebalanced.trades)
        /\ bt.rebalanced.buy_cash = RAdd(bt.pre.cash, SellProceeds(bt.rebalanced.trades))
        /\ bt.portfolio.cash = RSub(bt.rebalanced.buy_cash, BuyCost(bt.rebalanced.fills, btIn.config))

\* a rebalance that sold one symbol and bought another for more cash than
\* the portfolio held before the sell
C26_Witness ==
    /\ bt.pc = "append"
    /\ Len(Side(bt.rebalanced.fills, "sell")) = 1
    /\ Len(Side(bt.rebalanced.fills, "buy")) = 1
    /\ RLt(bt.pre.cash, BuyCost(bt.rebalanced.fills, btIn.config))

\* slippage and fees of the executed fills: qty x price x (slippage + fee) each
RECURSIVE TradingCosts(_, _)
TradingCosts(fills, config) ==
    IF fills = <<>> THEN Zero
    ELSE RAdd(RMul(RMul(Head(fills)[3], Head(fills)[4]),
                   RAdd(slippage_factor(config), fee_factor(config))),
              TradingCosts(Tail(fills), config))

\* C36: with slippage_bps = 0 and transaction_cost_bps = 0 a rebalance leaves
\* the equity at snapshot prices (cash + sum of quantity x price) unchanged;
\* with positive costs the equity after it never exceeds the equity before
\* it, and the shortfall is the slippage and fees of the executed trades.
C36_EquityLessCosts ==
    JustRebalanced =>
        /\ RSub(bt.pre.total_value, bt.portfolio.total_value)
              = TradingCosts(bt.rebalanced.fills, btIn.config)
        /\ RLe(bt.portfolio.total_value, bt.pre.total_value)
        /\ (btIn.config.slippage_bps = 0 /\ btIn.config.transaction_cost_bps = 0) =>
              bt.portfolio.total_value = bt.pre.total_value

\* a rebalance with costs that sold one position and bought another
C36_Witness ==
    /\ JustRebalanced
    /\ btIn.config.slippage_bps = 2500
    /\ Side(bt.rebalanced.fills, "sell") # <<>>
    /\ Side(bt.rebalanced.fills, "buy") # <<>>
    /\ RLt(bt.portfolio.total_value, bt.pre.total_value)

\* an iteration of the event loop has just ended: its equity value is the
\* last of the curve and the portfolio is as the iteration left it
IterationEnded == bt.pc \in {"mark", "finish"} /\ bt.equity_curve # <<>>

\* C37: at the end of every iteration of the event loop every open position
\* has an entry in the last-price map, so the recorded equity is cash plus
\* quantity x price over all open positions, none left out or valued at
\* zero, also on dates whose snapshot has no price for a held symbol.
C37_EveryPositionPriced ==
    IterationEnded =>
        /\ DOMAIN bt.portfolio.positions \subseteq DOMAIN bt.portfolio.last_price_map
        /\ \A s \in DOMAIN bt.portfolio.positions : RLt(Zero, bt.portfolio.last_price_map[s])
        /\ bt.equity_curve[Len(bt.equity_curve)][2]
              = RAdd(bt.portfolio.cash,
                     positions_value(bt.portfolio, bt.portfolio.last_price_map,
                                     DOMAIN bt.portfolio.positions))

\* an iteration ended on a date whose snapshot has no row for a held symbol
C37_Witness ==
    /\ IterationEnded
    /\ \E s \in DOMAIN bt.portfolio.positions : s \notin DOMAIN btIn.panel[bt.t - 1]

\* the symbols held before the latest rebalance for which its snapshot has
\* no valid positive price
NoValidPrice(s) ==
    LET snapshot == btIn.panel[bt.t]
    IN  s \notin DOMAIN snapshot \/ snapshot[s] = None \/ snapshot[s][1] <= 0

UnpricedHeld == { s \in DOMAIN bt.pre.positions : NoValidPrice(s) }

\* C38: a rebalance leaves the position (quantity, avg_price, entry_date) of
\* every symbol without a valid positive price in the snapshot unchanged,
\* whatever its target weight, and opens none for such a symbol; with
\* pre-trade equity <= 0 it returns ([], 0) and leaves cash and all
\* positions unchanged.
C38_UnpricedAndNoEquityUntouched ==
    JustRebalanced =>
        /\ \A s \in UnpricedHeld :
              /\ s \in DOMAIN bt.portfolio.positions
              /\ bt.portfolio.positions[s] = bt.pre.positions[s]
        /\ \A s \in DOMAIN bt.portfolio.positions :
              NoValidPrice(s) => s \in DOMAIN bt.pre.positions
        /\ \A i \in 1..Len(bt.rebalanced.fills) :
              ~NoValidPrice(bt.rebalanced.fills[i][2])
        /\ RLe(bt.pre.total_value, Zero) =>
              /\ bt.rebalanced.trades = <<>>
              /\ bt.turnover = Zero
              /\ bt.portfolio.cash = bt.pre.cash
              /\ bt.portfolio.positions = bt.pre.positions

\* a rebalance that traded while a held symbol, whose target weight asked for
\* a sale, had no price in the snapshot
C38_Witness ==
    /\ JustRebalanced
    /\ bt.rebalanced.fills # <<>>
    /\ \E s \in UnpricedHeld :
          \A i \in 1..Len(LastTargets) : LastTargets[i][1] # s

\* C27: within the sells and within the buys of a rebalance the orders are
\* executed in the order of the target-weight ranking, so the same targets,
\* holdings and prices always yield the same sequence of executed orders and
\* of trade records: no two iteration orders of all_symbols give different
\* sequences.
C27_ExecutionOrderDetermined ==
    bt.pc = "rebalance" =>
        \A o1, o2 \in Orderings(all_symbols(bt.portfolio, on_rebalance(btIn.strategy, bt.calls + 1),
                                            btIn.config)) :
           \A r1 \in { rebalance(bt.portfolio, on_rebalance(btIn.strategy, bt.calls + 1),
                                 btIn.panel[bt.t], date_at(bt.t), o1, btIn.config) } :
              \A r2 \in { rebalance(bt.portfolio, on_rebalance(btIn.strategy, bt.calls + 1),
                                    btIn.panel[bt.t], date_at(bt.t), o2, btIn.config) } :
                 r1.fills = r2.fills /\ r1.trades = r2.trades

(***************************************************************************)
(* Universe resolution of BacktestEngine.run (backtest/engine.py): the     *)
(* caller's universe or the universe provider's, normalised, and the       *)
(* emptiness test that precedes every load of data.                        *)
(***************************************************************************)
\* Bound of the universe model: symbols in a universe list.
MaxUniverse == 3

\* [str(sym).strip().upper() for sym in symbols if str(sym).strip()]
RECURSIVE cleaned(_)
cleaned(symbols) ==
    IF symbols = <<>> THEN <<>>
    ELSE (IF Strip(Head(symbols)) # <<>> THEN <<Upper(Strip(Head(symbols)))>> ELSE <<>>)
         \o cleaned(Tail(symbols))

assign_key_moving_last(keys, key) == Append(SelectSeq(keys, LAMBDA k : k # key), key)

\* the keys of a dict, in insertion order, after key is assigned
assign_key(keys, key) ==
    IF \E i \in 1..Len(keys) : keys[i] = key THEN keys ELSE Append(keys, key)

RECURSIVE fromkeys_onto(_, _)
fromkeys_onto(keys, items) ==
    IF items = <<>> THEN keys
    ELSE fromkeys_onto(assign_key(keys, Head(items)), Tail(items))

\* list(dict.fromkeys(items))
fromkeys(items) == fromkeys_onto(<<>>, items)

\* the value _resolve_universe returns, and the number of calls of the
\* universe provider it makes
resolve_universe(universe_given, universe, has_provider, provided) ==
    IF universe_given THEN [resolved |-> fromkeys(cleaned(universe)), provider_calls |-> 0]
    ELSE IF ~has_provider THEN [resolved |-> <<>>, provider_calls |-> 0]
    ELSE [resolved |-> fromkeys(cleaned(provided)), provider_calls |-> 1]

\* symbols as a caller writes them: padded, lower or upper case, blank, empty
UniRawSymbols == { <<" ", "x", " ">>, <<"X">>, <<"y">>, <<"Y", " ">>, <<" ">>, <<>> }

RECURSIVE ListsUpTo(_, _)
ListsUpTo(S, n) ==
    IF n = 0 THEN { <<>> }
    ELSE ListsUpTo(S, n - 1) \cup
         { Append(l, x) : l \in { k \in ListsUpTo(S, n - 1) : Len(k) = n - 1 }, x \in S }

Universes == ListsUpTo(UniRawSymbols, MaxUniverse)

\* what the universe provider returns
ProvidedUniverses == { <<>>, << <<"y">>, <<" ">>, <<"y">> >>, << <<"x", " ">> >> }

\* universe_given = FALSE is run(strategy, universe=None)
UniInputs ==
    [ universe_given : {TRUE}, universe : Universes,
      has_provider : BOOLEAN, provided : ProvidedUniverses ]
    \cup
    [ universe_given : {FALSE}, universe : { <<>> },
      has_provider : BOOLEAN, provided : ProvidedUniverses ]

UniIdleState == [pc |-> "resolve", resolved |-> <<>>, provider_calls |-> 0, price_loads |-> 0]

UniPending == "pending"

InitUni ==
    /\ uniIn \in UniInputs
    /\ uniSt = UniIdleState
    /\ uniOut = UniPending

IdleUni ==
    /\ uniIn = [universe_given |-> FALSE]
    /\ uniSt = [UniIdleState EXCEPT !.pc = "off"]
    /\ uniOut = UniPending

\* resolved_universe = self._resolve_universe(universe)
UniResolve ==
    /\ uniSt.pc = "resolve"
    /\ LET res == resolve_universe(uniIn.universe_given, uniIn.universe,
                                   uniIn.has_provider, uniIn.provided)
       IN  uniSt' = [uniSt EXCEPT !.pc = "check", !.resolved = res.resolved,
                                  !.provider_calls = @ + res.provider_calls]
    /\ UNCHANGED <<notUni, uniIn, uniOut>>

\* if not resolved_universe: raise BacktestError
UniRaiseEmpty ==
    /\ uniSt.pc = "check"
    /\ uniSt.resolved = <<>>
    /\ uniSt' = [uniSt EXCEPT !.pc = "done"]
    /\ uniOut' = "BacktestError"
    /\ UNCHANGED <<notUni, uniIn>>

\* price_history = self._load_price_history(resolved_universe, ...)
UniLoadPriceHistory ==
    /\ uniSt.pc = "check"
    /\ uniSt.resolved # <<>>
    /\ uniSt' = [uniSt EXCEPT !.pc = "done", !.price_loads = @ + 1]
    /\ uniOut' = "loaded"
    /\ UNCHANGED <<notUni, uniIn>>

NextUni == UniResolve \/ UniRaiseEmpty \/ UniLoadPriceHistory

\* the list the run normalises: the caller's whenever one is passed
UniSource == IF uniIn.universe_given THEN uniIn.universe ELSE uniIn.provided

\* the non-blank entries of a list, by position
NonBlank(l) == { i \in 1..Len(l) : Strip(l[i]) # <<>> }

\* first position of the entries of l that normalise to sym
FirstOf(l, sym) == CHOOSE i \in NonBlank(l) :
    /\ Upper(Strip(l[i])) = sym
    /\ \A j \in NonBlank(l) : Upper(Strip(l[j])) = sym => i <= j

\* C20: the resolved universe holds exactly the trimmed, upper-cased non-blank
\* symbols of the list, each once, in the order of their first occurrence; a
\* universe that is passed is the list used and the universe provider is then
\* never called; with an empty resolved universe the run raises BacktestError
\* and nothing is loaded.
C20_UniverseResolved ==
    uniSt.pc \in {"check", "done"} =>
        /\ (uniIn.universe_given \/ uniIn.has_provider) =>
              LET r == uniSt.resolved
                  l == UniSource
              IN  /\ \A i \in NonBlank(l) : \E k \in 1..Len(r) : r[k] = Upper(Strip(l[i]))
                  /\ \A k \in 1..Len(r) : \E i \in NonBlank(l) : r[k] = Upper(Strip(l[i]))
                  /\ \A k, n \in 1..Len(r) : k < n =>
                        /\ r[k] # r[n]
                        /\ FirstOf(l, r[k]) < FirstOf(l, r[n])
        /\ uniIn.universe_given => uniSt.provider_calls = 0
        /\ (~uniIn.universe_given /\ ~uniIn.has_provider) => uniSt.resolved = <<>>
        /\ (uniSt.pc = "done" /\ uniSt.resolved = <<>>) =>
              uniOut = "BacktestError" /\ uniSt.price_loads = 0
        /\ uniSt.price_loads > 0 => uniSt.resolved # <<>>

\* [" x ", "X", "y"] resolves to ["X", "Y"] although a provider is configured
C20_Witness ==
    /\ uniSt.pc = "done"
    /\ uniIn.universe_given
    /\ uniIn.has_provider
    /\ uniIn.universe = << <<" ", "x", " ">>, <<"X">>, <<"y">> >>
    /\ uniSt.resolved = << <<"X">>, <<"Y">> >>
    /\ uniSt.provider_calls = 0
    /\ uniOut = "loaded"

(***************************************************************************)
(* Company scores: pad_score and build_company_item (financials.py), and   *)
(* put_company and query_by_score of the Company repository (Company.py).  *)
(* A score is a float that is a multiple of 1/ScoreUnit, held as the       *)
(* integer number of units, so that "%.3f" rounds it as Python does        *)
(* (correctly rounded on the exact value, ties to even).                   *)
(***************************************************************************)
ScoreUnit == 2048

\* Bound of the score model: the limit argument of query_by_score.
MaxQueryLimit == 2

\* round(score * 1000), ties to even
millis(score) ==
    LET whole == score \div ScoreUnit
        frac == (score % ScoreUnit) * 1000
        f == frac \div ScoreUnit
        rem == frac % ScoreUnit
    IN  whole * 1000 + (IF 2 * rem > ScoreUnit \/ (2 * rem = ScoreUnit /\ f % 2 = 1)
                        THEN f + 1 ELSE f)

\* f"{score:0<width>.3f}" for score >= 0: zero-padded to at least width characters
format_03f(score, width) ==
    ZeroPad(Digits(millis(score) \div 1000) \o <<".">>
            \o ZeroPad(Digits(millis(score) % 1000), 3), width)

pad_score_unpadded(score) == format_03f(score, 0)

\* pad_score: f"{score:09.3f}"
pad_score(score) == format_03f(score, 9)

SCORE == <<"S", "C", "O", "R", "E">>

\* build_company_item
build_company_item(row, default_score) ==
    LET symbol == Upper(Strip(row.symbol))
    IN  [pk |-> symbol, gsi1pk |-> SCORE,
         gsi1sk |-> pad_score(default_score) \o <<"#">> \o symbol,
         symbol |-> symbol, score |-> default_score]

\* Company.put_company: put_item overwrites the item of the same pk
put_company(t, item) == {it \in t : it.pk # item.pk} \cup {item}

\* score_key = f"{min_score:08.3f}#"
score_key(min_score) == format_03f(min_score, 8) \o <<"#">>

\* Company.query_by_score: gsi1pk = "SCORE" AND gsi1sk >= score_key, ascending,
\* at most limit items
query_by_score(t, min_score, limit) ==
    LET matching == {it \in t : it.gsi1pk = SCORE
                                 /\ ~StrLess(it.gsi1sk, score_key(min_score))}
        items == SortBySk(matching, TRUE)
    IN  IF Len(items) > limit THEN SubSeq(items, 1, limit) ELSE items

\* scores: 0, 1/2048, 0.5, 0.75, 5, 7, 50, 99999, 99999 + 2047/2048 and 100000
Scores == {0, 1, 1024, 1536, 5 * ScoreUnit, 7 * ScoreUnit, 50 * ScoreUnit,
           99999 * ScoreUnit, 99999 * ScoreUnit + 2047, 100000 * ScoreUnit}

\* scores of stored companies: 0, 0.5, 5, 7 and 50
StoredScores == {0, 1024, 5 * ScoreUnit, 7 * ScoreUnit, 50 * ScoreUnit}

CompanyRows == { [symbol |-> <<"x">>], [symbol |-> <<"Y", " ">>] }

InitScore ==
    /\ coTable = {}
    /\ coLast = [op |-> "none"]

IdleScore ==
    /\ coTable = {}
    /\ coLast = [op |-> "off"]

\* pad_score(a) and pad_score(b)
PadScores ==
    /\ coLast.op # "off"
    /\ \E a, b \in Scores :
          coLast' = [op |-> "pad", a |-> a, b |-> b,
                     pad_a |-> pad_score(a), pad_b |-> pad_score(b)]
    /\ UNCHANGED <<notScore, coTable>>

\* company_put(build_company_item(row, default_score))
PutCompany ==
    /\ coLast.op # "off"
    /\ \E row \in CompanyRows, score \in StoredScores :
          /\ coTable' = put_company(coTable, build_company_item(row, score))
          /\ coLast' = [op |-> "put", item |-> build_company_item(row, score)]
    /\ UNCHANGED notScore

\* Company.query_by_score(min_score, limit)
QueryByScore ==
    /\ coLast.op # "off"
    /\ \E min_score \in Scores, limit \in 1..MaxQueryLimit :
          coLast' = [op |-> "query", min_score |-> min_score, limit |-> limit,
                     items |-> query_by_score(coTable, min_score, limit)]
    /\ UNCHANGED <<notScore, coTable>>

NextScore == PadScores \/ PutCompany \/ QueryByScore

FiveDigits(score) == millis(score) < 100000 * 1000

AtLeast(t, min_score) == {it \in t : it.score >= min_score}

\* C22: query_by_score(min_score, limit) returns only companies whose stored
\* score is >= min_score and, when at most limit such companies exist, all of
\* them.
C22_QueryByScoreIsLowerBound ==
    coLast.op = "query" =>
        /\ \A i \in 1..Len(coLast.items) : coLast.items[i].score >= coLast.min_score
        /\ Cardinality(AtLeast(coTable, coLast.min_score)) <= coLast.limit =>
              AtLeast(coTable, coLast.min_score) =
                  { coLast.items[i] : i \in 1..Len(coLast.items) }

(***************************************************************************)
(* BacktestEngine.run: the order of its steps, the strategy callbacks and  *)
(* the ways it ends (core/backtest/engine.py, core/backtest/strategy.py).  *)
(* The portfolio arithmetic is the subject of the engine model above; here *)
(* each step is recorded as an event.                                      *)
(***************************************************************************)

\* Bound of the run model: dates of the price index.
MaxIndexDates == 3

\* Thu 26, Fri 27, Mon 30, Tue 31 January, Wed 1, Fri 3, Mon 6 February 2023
RunCandidates ==
    { Ymd2Ord(2023, 1, 26), Ymd2Ord(2023, 1, 27), Ymd2Ord(2023, 1, 30), Ymd2Ord(2023, 1, 31),
      Ymd2Ord(2023, 2, 1), Ymd2Ord(2023, 2, 3), Ymd2Ord(2023, 2, 6) }

\* price_history.index.get_level_values(date).unique() of the sorted frame
RECURSIVE date_index(_)
date_index(S) ==
    IF S = {} THEN <<>>
    ELSE LET first == CHOOSE d \in S : \A e \in S : d <= e
         IN  <<first>> \o date_index(S \ {first})

DateIndexes ==
    { date_index(S) : S \in { T \in SUBSET RunCandidates : Cardinality(T) \in 1..MaxIndexDates } }

Frequencies ==
    { Daily, <<"W", "e", "e", "k", "l", "y">>, Monthly, <<"1", "d">>, <<"2", "d">>,
      <<"0", "d">>, <<"3", "D">>, <<"d">>, <<"h", "o", "u", "r", "l", "y">> }

\* what goes wrong in a run: nothing, or one of the conditions run() checks,
\* or an exception raised by strategy.initialize
Faults ==
    { "none", "empty_universe", "no_price_data", "flat_index", "empty_window",
      "missing_fields", "initialize_raises" }

\* raises_at: the call of strategy.on_rebalance that raises (0: none does)
RunInputs ==
    { in \in [dates : DateIndexes, frequency : Frequencies, fault : Faults, raises_at : 0..2] :
        in.fault = "none" \/ in.raises_at = 0 }

RunIdleState ==
    [pc |-> "start", t |-> 1, events |-> <<>>, calls |-> 0, rebalance_set |-> {},
     scheduled |-> FALSE, equity_curve |-> <<>>]

RunPending == [status |-> "pending"]

InitRun ==
    /\ runIn \in RunInputs
    /\ runSt = RunIdleState
    /\ runOut = RunPending

IdleRun ==
    /\ runIn = [fault |-> "off"]
    /\ runSt = [RunIdleState EXCEPT !.pc = "off"]
    /\ runOut = RunPending

Event(op, date) == [op |-> op, date |-> date]

propagate_as_backtest_error(exc) == "BacktestError"

\* an exception raised inside a strategy callback leaves run() as it is: the
\* calls are not wrapped
propagate(exc) == exc

\* run() ends with an exception
Raised(error) == [status |-> "raised", error |-> error]

\* resolved_universe = self._resolve_universe(universe), and its check
RunResolveUniverse ==
    /\ runSt.pc = "start"
    /\ IF runIn.fault = "empty_universe"
       THEN /\ runSt' = [runSt EXCEPT !.pc = "done"]
            /\ runOut' = Raised("BacktestError")
       ELSE /\ runSt' = [runSt EXCEPT !.pc = "load"]
            /\ UNCHANGED runOut
    /\ UNCHANGED <<notRun, runIn>>

\* _load_price_history, the checks of the frame, date_index, _load_fundamentals
RunLoadPriceHistory ==
    /\ runSt.pc = "load"
    /\ IF runIn.fault \in {"no_price_data", "flat_index", "empty_window", "missing_fields"}
       THEN /\ runSt' = [runSt EXCEPT !.pc = "done"]
            /\ runOut' = Raised("BacktestError")
       ELSE /\ runSt' = [runSt EXCEPT !.pc = "initialize"]
            /\ UNCHANGED runOut
    /\ UNCHANGED <<notRun, runIn>>

\* context = StrategyContext(...); strategy.initialize(context)
RunInitialize ==
    /\ runSt.pc = "initialize"
    /\ IF runIn.fault = "initialize_raises"
       THEN /\ runSt' = [runSt EXCEPT !.pc = "done",
                                      !.events = Append(@, Event("initialize", 0))]
            /\ runOut' = Raised(propagate("StrategyError"))
       ELSE /\ runSt' = [runSt EXCEPT !.pc = "schedule",
                                      !.events = Append(@, Event("initialize", 0))]
            /\ UNCHANGED runOut
    /\ UNCHANGED <<notRun, runIn>>

\* portfolio = Portfolio(config); rebalance_set = set(_compute_rebalance_dates(...))
RunComputeSchedule ==
    /\ runSt.pc = "schedule"
    /\ \E r \in { compute_rebalance_dates(runIn.dates, runIn.frequency) } :
         IF r.raised
         THEN /\ runSt' = [runSt EXCEPT !.pc = "done",
                                        !.events = Append(@, Event("schedule", 0))]
              /\ runOut' = Raised(r.error)
         ELSE /\ runSt' = [runSt EXCEPT !.pc = "mark", !.scheduled = TRUE,
                                        !.rebalance_set = SeqRange(r.dates),
                                        !.events = Append(@, Event("schedule", 0))]
              /\ UNCHANGED runOut
    /\ UNCHANGED <<notRun, runIn>>

after_mark_always(ts, rebalance_set) == "rebalance"

\* if ts in rebalance_set
after_mark(ts, rebalance_set) == IF ts \in rebalance_set THEN "rebalance" ELSE "append"

\* for ts in date_index: portfolio.mark_to_market(snapshot)
RunMarkToMarket ==
    /\ runSt.pc = "mark"
    /\ runSt' = [runSt EXCEPT !.pc = after_mark(runIn.dates[runSt.t], runSt.rebalance_set),
                              !.events = Append(@, Event("mark_to_market", runIn.dates[runSt.t]))]
    /\ UNCHANGED <<notRun, runIn, runOut>>

\* strategy.on_rebalance, portfolio.rebalance, portfolio.mark_to_market
RunRebalance ==
    /\ runSt.pc = "rebalance"
    /\ IF runSt.calls + 1 = runIn.raises_at
       THEN /\ runSt' = [runSt EXCEPT !.pc = "done", !.calls = @ + 1,
                           !.events = Append(@, Event("on_rebalance", runIn.dates[runSt.t]))]
            /\ runOut' = Raised(propagate("StrategyError"))
       ELSE /\ runSt' = [runSt EXCEPT !.pc = "append", !.calls = @ + 1,
                           !.events = @ \o << Event("on_rebalance", runIn.dates[runSt.t]),
                                              Event("rebalance", runIn.dates[runSt.t]),
                                              Event("mark_to_market", runIn.dates[runSt.t]) >>]
            /\ UNCHANGED runOut
    /\ UNCHANGED <<notRun, runIn>>

\* equity_curve.append((current_date, portfolio.total_value)), and the next date
RunAppendEquity ==
    /\ runSt.pc = "append"
    /\ runSt' = [runSt EXCEPT !.pc = IF runSt.t = Len(runIn.dates) THEN "statistics" ELSE "mark",
                              !.t = @ + 1,
                              !.equity_curve = Append(@, runIn.dates[runSt.t]),
                              !.events = Append(@, Event("append", runIn.dates[runSt.t]))]
    /\ UNCHANGED <<notRun, runIn, runOut>>

\* the statistics, and return BacktestResult(...)
RunReturn ==
    /\ runSt.pc = "statistics"
    /\ runSt' = [runSt EXCEPT !.pc = "done"]
    /\ runOut' = [status |-> "result", equity_curve |-> runSt.equity_curve]
    /\ UNCHANGED <<notRun, runIn>>

NextRun ==
    \/ RunResolveUniverse
    \/ RunLoadPriceHistory
    \/ RunInitialize
    \/ RunComputeSchedule
    \/ RunMarkToMarket
    \/ RunRebalance
    \/ RunAppendEquity
    \/ RunReturn

\* the frequencies _compute_rebalance_dates accepts
SupportedFrequency(frequency) ==
    \/ Lower(frequency) \in {Daily, Weekly, Monthly}
    \/ /\ Len(frequency) >= 2
       /\ Lower(frequency)[Len(frequency)] = "d"
       /\ \A i \in 1..(Len(frequency) - 1) : frequency[i] \in {"0", "1", "2", "3", "4", "5", "6", "7", "8", "9"}

\* something went wrong in the run: an input run() rejects, or a strategy
\* callback that raised
FailureHappened ==
    \/ runIn.fault # "none"
    \/ ~SupportedFrequency(runIn.frequency)
    \/ (runIn.raises_at > 0 /\ runSt.calls >= runIn.raises_at)

\* the last thing the run did was a strategy callback that raised
StrategyRaised ==
    /\ runSt.events # <<>>
    /\ \/ runSt.events[Len(runSt.events)].op = "on_rebalance"
       \/ (runSt.events[Len(runSt.events)].op = "initialize" /\ runIn.fault = "initialize_raises")

\* C23 (as stated): any failure at any step of run (empty universe, missing or
\* empty price data, unsupported frequency, an exception raised by
\* strategy.initialize or strategy.on_rebalance) ends the run with a
\* BacktestError, and no BacktestResult is returned.
C23_FailureSurfacesBacktestError ==
    (runSt.pc = "done" /\ FailureHappened) =>
        /\ runOut.status = "raised"
        /\ runOut.error = "BacktestError"
        /\ DOMAIN runOut = {"status", "error"}

\* C23 (amended): any failure ends the run with an exception and no
\* BacktestResult; the exception is a BacktestError when run() itself rejects
\* its inputs (empty universe, missing or empty price data, unsupported
\* frequency), and the strategy's own exception, unchanged, when
\* strategy.initialize or strategy.on_rebalance raised.
C23_FailureEndsRunWithoutResult ==
    /\ runOut.status = "result" => (runSt.pc = "done" /\ ~FailureHappened)
    /\ (runSt.pc = "done" /\ FailureHappened) =>
          /\ runOut.status = "raised"
          /\ DOMAIN runOut = {"status", "error"}
          /\ runOut.error = (IF StrategyRaised THEN "StrategyError" ELSE "BacktestError")
          /\ runSt.equity_curve # runIn.dates

\* the second call of on_rebalance raised: the run ended with the strategy's
\* exception after one complete date
C23_Witness ==
    /\ runSt.pc = "done"
    /\ runIn.raises_at = 2
    /\ runSt.calls = 2
    /\ runOut = Raised("StrategyError")
    /\ Len(runSt.equity_curve) = 1

\* the events of one index date: mark-to-market; on a rebalance date the
\* strategy call, the rebalance and a second mark-to-market; one equity value
DateEvents(date, rebalances) ==
    <<Event("mark_to_market", date)>>
    \o (IF rebalances
        THEN <<Event("on_rebalance", date), Event("rebalance", date), Event("mark_to_market", date)>>
        ELSE <<>>)
    \o <<Event("append", date)>>

RECURSIVE LoopEvents(_, _, _)
LoopEvents(dates, rebalance_set, i) ==
    IF i > Len(dates) THEN <<>>
    ELSE DateEvents(dates[i], dates[i] \in rebalance_set) \o LoopEvents(dates, rebalance_set, i + 1)

\* the events of the loop over the index: those after initialize and the schedule
LoopPart(events) == SubSeq(events, 3, Len(events))

\* C25: run processes the dates of the index in strictly ascending order; for
\* each date it marks the portfolio to market, then (only on a rebalance
\* date) calls the strategy, rebalances and marks to market again, then
\* appends exactly one equity value, so the equity curve has exactly one entry
\* per index date, in index order.
C25_OneEquityValuePerDateInOrder ==
    /\ \A i, j \in 1..Len(runSt.events) :
          (i < j /\ runSt.events[i].date > 0) => runSt.events[i].date <= runSt.events[j].date
    /\ runSt.equity_curve = SubSeq(runIn.dates, 1, Len(runSt.equity_curve))
    /\ runSt.pc \in {"mark", "statistics"} =>
          LoopPart(runSt.events) = LoopEvents(SubSeq(runIn.dates, 1, runSt.t - 1), runSt.rebalance_set, 1)
    /\ runOut.status = "result" =>
          /\ runOut.equity_curve = runIn.dates
          /\ LoopPart(runSt.events) = LoopEvents(runIn.dates, runSt.rebalance_set, 1)

\* a run over three dates that rebalanced on the first and the third only
C25_Witness ==
    /\ runOut.status = "result"
    /\ Len(runIn.dates) = 3
    /\ runSt.rebalance_set = {runIn.dates[1], runIn.dates[3]}
    /\ Len(runOut.equity_curve) = 3
    /\ Len(runSt.events) = 2 + 5 + 2 + 5

\* the positions of a sequence whose (0-based) position is a multiple of n
EveryNthPositions(dates, n) == { i \in 1..Len(dates) : (i - 1) % n = 0 }

\* two dates of the same Saturday-to-Friday week
SameWeek(a, b) == (a + 1) \div 7 = (b + 1) \div 7

\* two dates of the same calendar month
SameMonth(a, b) == Ord2Ymd(a)[1] = Ord2Ymd(b)[1] /\ Ord2Ymd(a)[2] = Ord2Ymd(b)[2]

\* the index dates with no later index date in their week (month)
LastOfPeriod(dates, weekly) ==
    { dates[i] : i \in { k \in 1..Len(dates) :
         \A j \in (k + 1)..Len(dates) :
            IF weekly THEN ~SameWeek(dates[k], dates[j]) ELSE ~SameMonth(dates[k], dates[j]) } }

\* the sequence is strictly ascending
StrictlyAscending(seq) == \A i \in 1..(Len(seq) - 1) : seq[i] < seq[i + 1]

FirstEvent(events, op) ==
    IF \E i \in 1..Len(events) : events[i].op = op
    THEN CHOOSE i \in 1..Len(events) : events[i].op = op /\ \A j \in 1..(i - 1) : events[j].op # op
    ELSE 0

\* the dates of the events of a kind, in order
RECURSIVE EventDates(_, _)
EventDates(events, op) ==
    IF events = <<>> THEN <<>>
    ELSE (IF Head(events).op = op THEN <<Head(events).date>> ELSE <<>>) \o EventDates(Tail(events), op)

\* C30: in every successful run strategy.initialize is called exactly once,
\* before the first on_rebalance and after the rebalance schedule has been
\* computed, so that an unsupported frequency fails the run before any
\* strategy callback; on_rebalance is called exactly once per scheduled
\* rebalance date and never outside the schedule.
C30_InitializeAfterSchedule ==
    /\ runOut.status = "result" =>
          /\ Len(EventDates(runSt.events, "initialize")) = 1
          /\ FirstEvent(runSt.events, "schedule") < FirstEvent(runSt.events, "initialize")
          /\ FirstEvent(runSt.events, "on_rebalance") # 0 =>
                FirstEvent(runSt.events, "initialize") < FirstEvent(runSt.events, "on_rebalance")
          /\ StrictlyAscending(EventDates(runSt.events, "on_rebalance"))
          /\ SeqRange(EventDates(runSt.events, "on_rebalance")) = runSt.rebalance_set
    /\ (runSt.pc = "done" /\ runIn.fault = "none" /\ ~SupportedFrequency(runIn.frequency)) =>
          /\ runOut = Raised("BacktestError")
          /\ FirstEvent(runSt.events, "initialize") = 0
          /\ FirstEvent(runSt.events, "on_rebalance") = 0

(***************************************************************************)
(* The price attributes of the items upsert_quotes_df writes               *)
(* (database/StockData.py, IndexData.py, MarketData.py).  A value is its   *)
(* Python type and its text; an item is a function from attribute names,   *)
(* restricted to the keys and the price attributes.                        *)
(***************************************************************************)
NoneValue == [type |-> "NoneType", repr |-> <<>>]
FloatValue(repr) == [type |-> "float", repr |-> repr]
StrValue(repr) == [type |-> "str", repr |-> repr]
NaNValue == FloatValue(<<"n", "a", "n">>)

\* pd.isna(v) for a scalar
isna(v) == v = NoneValue \/ v = NaNValue

\* Decimal(str(v)): the decimal number written by the float's repr
DecimalOfStr(v) == [type |-> "Decimal", repr |-> v.repr]

\* _opt_decimal of StockData and MarketData
opt_decimal(v) == IF v = NoneValue \/ isna(v) THEN NoneValue ELSE DecimalOfStr(v)

\* _opt_float of IndexData: f = float(v); None if pd.isna(f) else f
opt_float(v) == IF v = NoneValue THEN NoneValue ELSE IF isna(v) THEN NoneValue ELSE v

PriceFields == <<"open", "high", "low", "close", "adj_close">>

make_pk_index(symbol) == concat(<< <<"I", "N", "D", "E", "X">>, symbol >>)

\* the key attributes of an item
key_attributes(pk, row) ==
    [ a \in {"pk", "sk", "symbol", "date"} |->
        CASE a = "pk" -> StrValue(pk)
          [] a = "sk" -> StrValue(make_sk_quote_date(row.date))
          [] a = "symbol" -> StrValue(Strip(row.symbol))
          [] a = "date" -> StrValue(isoformat(row.date)) ]

\* x_v = _opt_decimal(row.get(x)); if x_v is not None: item[x] = x_v
RECURSIVE set_prices(_, _, _)
set_prices(item, row, fields) ==
    IF fields = <<>> THEN item
    ELSE LET v == opt_decimal(row[Head(fields)])
         IN  set_prices(IF v # NoneValue THEN (Head(fields) :> v) @@ item ELSE item, row, Tail(fields))

\* the item StockData.upsert_quotes_df builds for a row
stock_item(row) == set_prices(key_attributes(make_pk_stock(Strip(row.symbol)), row), row, PriceFields)

\* the item MarketData.upsert_quotes_df builds for a row
market_item(row) == set_prices(key_attributes(make_pk_stock(Strip(row.symbol)), row), row, PriceFields)

\* the item IndexData.upsert_quotes_df builds for a row: "open": _opt_float(row.get("open")), ...
index_item(row) ==
    [ a \in {"open", "high", "low", "close", "adj_close"} |-> opt_float(row[a]) ]
        @@ key_attributes(make_pk_index(Strip(row.symbol)), row)

PriceValues ==
    { NoneValue, NaNValue, FloatValue(<<"4", "7", "5", ".", "1", "2">>), FloatValue(<<"0", ".", "0">>) }

QuoteRows ==
    [ symbol : {<<"X">>}, date : {Ymd2Ord(2025, 1, 2)},
      open : PriceValues, close : PriceValues, adj_close : PriceValues,
      high : {NaNValue, FloatValue(<<"4", "8", "0", ".", "0">>)},
      low : {NoneValue, FloatValue(<<"4", "7", "0", ".", "5">>)} ]

NothingWritten == [service |-> "none", items |-> <<>>]

InitQuote ==
    /\ qIn \in QuoteRows
    /\ qOut = NothingWritten

IdleQuote ==
    /\ qIn = [symbol |-> <<>>]
    /\ qOut = [service |-> "off", items |-> <<>>]

\* StockData.upsert_quotes_df on a one-row frame, an empty table behind it
StockUpsertQuotes ==
    /\ qOut = NothingWritten
    /\ qOut' = [service |-> "StockData", items |-> <<stock_item(qIn)>>]
    /\ UNCHANGED <<notQuote, qIn>>

\* IndexData.upsert_quotes_df on a one-row frame
IndexUpsertQuotes ==
    /\ qOut = NothingWritten
    /\ qOut' = [service |-> "IndexData", items |-> <<index_item(qIn)>>]
    /\ UNCHANGED <<notQuote, qIn>>

\* MarketData.upsert_quotes_df on a one-row frame
MarketUpsertQuotes ==
    /\ qOut = NothingWritten
    /\ qOut' = [service |-> "MarketData", items |-> <<market_item(qIn)>>]
    /\ UNCHANGED <<notQuote, qIn>>

NextQuote ==
    \/ StockUpsertQuotes
    \/ IndexUpsertQuotes
    \/ MarketUpsertQuotes

\* C24: in every item written by upsert_quotes_df of StockData, IndexData and
\* MarketData each price attribute (open, high, low, close, adj_close) is
\* either absent or a Decimal, never a binary float, and a value missing or
\* NaN in the source is not stored (neither as null nor as zero).
C24_PricesAbsentOrDecimal ==
    \A i \in 1..Len(qOut.items) : \A k \in 1..Len(PriceFields) :
        /\ PriceFields[k] \in DOMAIN qOut.items[i] => qOut.items[i][PriceFields[k]].type = "Decimal"
        /\ isna(qIn[PriceFields[k]]) => PriceFields[k] \notin DOMAIN qOut.items[i]

(***************************************************************************)
(* Price resolution of Portfolio.mark_to_market on snapshot rows with a    *)
(* price field and a fallback field (backtest/engine.py).  A float is a    *)
(* rational, NaN (<<0, 0>>) or an infinity (<<1, 0>>, <<-1, 0>>); a field  *)
(* the row does not have is None.                                          *)
(***************************************************************************)
\* Bound of the marking model: successive mark_to_market calls.
MaxMarks == 2

NaN == <<0, 0>>
Inf == <<1, 0>>

\* BacktestConfig defaults: price_field, fallback_price_field
MarkConfig == [price_field |-> "adj_close", fallback_price_field |-> "close"]

\* row.get(field)
row_get(row, field) == IF field \in DOMAIN row THEN row[field] ELSE None

\* _resolve_price on a Series row: the price field, or the fallback field when
\* the price field is None or NaN
row_price(row, config) ==
    IF row_get(row, config.price_field) = None \/ row_get(row, config.price_field) = NaN
    THEN row_get(row, config.fallback_price_field)
    ELSE row_get(row, config.price_field)

\* the snapshot as _resolve_price reads it: per symbol of its index, the value
\* picked from the row
picked_prices(snapshot, config) ==
    IF DOMAIN snapshot = {} THEN <<>>
    ELSE [s \in DOMAIN snapshot |-> row_price(snapshot[s], config)]

FieldValues == { None, NaN, Zero, <<-5, 1>>, Inf, P10, P15 }

\* the rows of AAA: adj_close and close, each a float or missing
MarkRows ==
    { IF r.adj_close = None /\ r.close = None THEN <<>>
      ELSE IF r.adj_close = None THEN [close |-> r.close]
      ELSE IF r.close = None THEN [adj_close |-> r.adj_close]
      ELSE r : r \in [adj_close : FieldValues, close : FieldValues] }

\* snapshots of one date: AAA has a row, or is not in the index
MarkSnapshots == { <<>> } \cup { (AAA :> row) : row \in MarkRows }

\* a portfolio that bought 10 AAA at 10 and has not been marked since
HeldPortfolio ==
    [cash |-> <<1000, 1>>,
     positions |-> (AAA :> [quantity |-> <<10, 1>>, avg_price |-> P10, entry_date |-> BtFirstDate]),
     total_value |-> <<1100, 1>>, last_price_map |-> <<>>]

InitMark ==
    mk = [portfolio |-> HeldPortfolio, pre |-> HeldPortfolio, snapshot |-> <<>>, marks |-> 0]

IdleMark ==
    mk = [portfolio |-> HeldPortfolio, pre |-> HeldPortfolio, snapshot |-> <<>>, marks |-> -1]

\* portfolio.mark_to_market(snapshot)
MarkToMarket ==
    /\ mk.marks \in 0..(MaxMarks - 1)
    /\ \E snapshot \in MarkSnapshots :
         mk' = [portfolio |-> mark_to_market(mk.portfolio, picked_prices(snapshot, MarkConfig)),
                pre |-> mk.portfolio, snapshot |-> snapshot, marks |-> mk.marks + 1]
    /\ UNCHANGED notMark

NextMark == MarkToMarket

\* a price that can be used: present, a number, finite and positive
Available(v) == v # None /\ v[2] # 0 /\ v[1] > 0

\* the price the resolution order names: price field, else fallback field,
\* else last known price
ExpectedPrice(pre, snapshot, config) ==
    IF AAA \in DOMAIN snapshot /\ Available(row_get(snapshot[AAA], config.price_field))
    THEN row_get(snapshot[AAA], config.price_field)
    ELSE IF AAA \in DOMAIN snapshot /\ Available(row_get(snapshot[AAA], config.fallback_price_field))
    THEN row_get(snapshot[AAA], config.fallback_price_field)
    ELSE IF AAA \in DOMAIN pre.last_price_map /\ Available(pre.last_price_map[AAA])
    THEN pre.last_price_map[AAA]
    ELSE None

\* C29: mark_to_market resolves the price of each held symbol as the
\* snapshot's price_field value if available, otherwise the
\* fallback_price_field value if available, otherwise the last known price,
\* a missing, non-positive or non-finite value counting as unavailable at
\* each step, and sets total_value to cash plus the sum of quantity times
\* resolved price.
C29_PriceResolutionOrder ==
    mk.marks >= 1 =>
        \A price \in { ExpectedPrice(mk.pre, mk.snapshot, MarkConfig) } :
            IF price = None
            THEN mk.portfolio.total_value = mk.portfolio.cash
            ELSE /\ mk.portfolio.last_price_map = (AAA :> price)
                 /\ mk.portfolio.total_value =
                       RAdd(mk.portfolio.cash, RMul(mk.portfolio.positions[AAA].quantity, price))

(***************************************************************************)
(* Retry loop of _fetch_yf_symbol (data_collector/index/quotes.py).        *)
(***************************************************************************)
\* attempts = 3
YfAttempts == 3

\* what one pass through the try block meets: a frame from Ticker.history, a
\* frame from yf.download after an empty history, nothing from either, a
\* frame without a date column, or an exception
YfOutcomes ==
    { "history", "download", "empty", "no_date",
      "JSONDecodeError", "RequestException", "ValueError", "KeyError", "TypeError" }

is_transient_always(error) == TRUE

\* except (JSONDecodeError, RequestException, ValueError, KeyError)
is_transient(error) == error \in {"JSONDecodeError", "RequestException", "ValueError", "KeyError"}

\* the frame the try block returns from the data of an attempt: renamed,
\* restricted to _EMPTY_YF_COLUMNS
normalized_yf_frame(attempt) == [empty |-> FALSE, columns |-> EmptyHistColumns, attempt |-> attempt]

empty_hist_frame == [empty |-> TRUE, columns |-> EmptyHistColumns, attempt |-> 0]

YfReturned(frame) == [status |-> "returned", frame |-> frame]

InitYf ==
    /\ yf = [pc |-> "try", attempt |-> 1, outcomes |-> <<>>]
    /\ yfOut = [status |-> "pending"]

IdleYf ==
    /\ yf = [pc |-> "off", attempt |-> 1, outcomes |-> <<>>]
    /\ yfOut = [status |-> "pending"]

\* one pass through the body of `for attempt in range(1, attempts + 1)`
YfAttempt ==
    /\ yf.pc = "try"
    /\ \E outcome \in YfOutcomes :
         IF outcome \in {"history", "download"}
         THEN /\ yf' = [yf EXCEPT !.pc = "done", !.outcomes = Append(@, outcome)]
              /\ yfOut' = YfReturned(normalized_yf_frame(yf.attempt))
         ELSE IF outcome \in {"empty", "no_date"}
         THEN /\ yf' = [yf EXCEPT !.pc = "done", !.outcomes = Append(@, outcome)]
              /\ yfOut' = YfReturned(empty_hist_frame)
         ELSE IF is_transient(outcome)
         THEN /\ yf' = [yf EXCEPT !.pc = IF yf.attempt < YfAttempts THEN "sleep" ELSE "after_loop",
                                  !.outcomes = Append(@, outcome)]
              /\ UNCHANGED yfOut
         ELSE /\ yf' = [yf EXCEPT !.pc = "done", !.outcomes = Append(@, outcome)]
              /\ yfOut' = [status |-> "raised", error |-> outcome]
    /\ UNCHANGED notYf

\* time.sleep(sleep_s); continue
YfSleep ==
    /\ yf.pc = "sleep"
    /\ yf' = [yf EXCEPT !.pc = "try", !.attempt = @ + 1]
    /\ UNCHANGED <<notYf, yfOut>>

\* after the loop: the error is logged and _empty_yf_frame() returned
YfGiveUp ==
    /\ yf.pc = "after_loop"
    /\ yf' = [yf EXCEPT !.pc = "done"]
    /\ yfOut' = YfReturned(empty_hist_frame)
    /\ UNCHANGED notYf

NextYf ==
    \/ YfAttempt
    \/ YfSleep
    \/ YfGiveUp

\* the errors the loop retries on
TransientErrors == {"JSONDecodeError", "RequestException", "ValueError", "KeyError"}

\* C31: _fetch_yf_symbol makes at most 3 attempts per call, a further attempt
\* only after a transient error on the previous one, returns the normalized
\* frame of the first attempt that succeeds, after 3 transient failures
\* returns an empty frame instead of raising, and always terminates (every
\* step is an attempt, a sleep between two attempts or the final return, and
\* a call that is not over can take a step).
C31_AtMostThreeAttempts ==
    /\ Len(yf.outcomes) <= 3
    /\ yf.attempt <= 3
    /\ \A i \in 1..(Len(yf.outcomes) - 1) : yf.outcomes[i] \in TransientErrors
    /\ (yfOut.status = "returned" /\ ~yfOut.frame.empty) =>
          /\ yf.outcomes[Len(yf.outcomes)] \in {"history", "download"}
          /\ yfOut.frame.attempt = Len(yf.outcomes)
          /\ yfOut.frame.columns = EmptyHistColumns
    /\ (yf.pc = "done" /\ Len(yf.outcomes) = 3 /\ yf.outcomes[3] \in TransientErrors) =>
          (yfOut.status = "returned" /\ yfOut.frame.empty)
    /\ yfOut.status = "raised" => yfOut.error \notin TransientErrors
    /\ yf.pc \notin {"done", "off"} => ENABLED NextYf
    /\ yfOut.status = "pending" <=> yf.pc # "done"

\* two transient failures, then the third attempt's frame is returned
C31_Witness ==
    /\ yf.pc = "done"
    /\ yf.outcomes = <<"RequestException", "KeyError", "download">>
    /\ yfOut = YfReturned(normalized_yf_frame(3))

(***************************************************************************)
(* Pagination loop of DynamoRepository.query_by_symbol and                 *)
(* query_by_market_status (database/repository.py).  The matching items    *)
(* are numbered 1..total in index order; a continuation key is the number  *)
(* of the last item evaluated, None (0) when the store returns none.       *)
(***************************************************************************)
\* Bounds of the pagination model: matching items, limit.
MaxMatching == 4
MaxLimit == 3

NoKey == 0

\* the matching items in index order
matching_items(total) == [i \in 1..total |-> i]

\* sizes the store may give the page that starts after start_key: at least one
\* item while items remain, never more than Limit
page_sizes(total, start_key, limit) ==
    LET remaining == total - start_key
    IN  IF remaining = 0 THEN {0}
        ELSE { k \in 1..remaining : limit = 0 \/ k <= limit }

\* LastEvaluatedKey of a page: present while items remain; at the end of the
\* result the store may return it (a page cut by Limit) or not
page_keys(total, start_key, size) ==
    IF start_key + size < total THEN {start_key + size}
    ELSE IF size > 0 THEN {start_key + size, NoKey}
    ELSE {NoKey}

should_break_after_first_page(last_evaluated_key, limit, collected) == TRUE

\* if not last_evaluated_key or (limit and len(items) >= limit): break
should_break(last_evaluated_key, limit, collected) ==
    last_evaluated_key = NoKey \/ (limit # 0 /\ collected >= limit)

\* items[:limit] if limit else items
returned_items(items, limit) ==
    IF limit # 0 /\ Len(items) > limit THEN SubSeq(items, 1, limit) ELSE items

PageInputs ==
    [ fn : {"query_by_symbol", "query_by_market_status"}, total : 0..MaxMatching, limit : 0..MaxLimit ]

InitPage ==
    /\ pgIn \in PageInputs
    /\ pg = [pc |-> "loop", items |-> <<>>, last_evaluated_key |-> NoKey, pages |-> 0]
    /\ pgOut = [status |-> "pending"]

IdlePage ==
    /\ pgIn = [fn |-> "none"]
    /\ pg = [pc |-> "off", items |-> <<>>, last_evaluated_key |-> NoKey, pages |-> 0]
    /\ pgOut = [status |-> "pending"]

\* one pass of `while True`: the page is requested after the continuation key,
\* its items are appended, its key is kept
fetch_page(fn) ==
    /\ pgIn.fn = fn
    /\ pg.pc = "loop"
    /\ \E size \in page_sizes(pgIn.total, pg.last_evaluated_key, pgIn.limit) :
         \E key \in page_keys(pgIn.total, pg.last_evaluated_key, size) :
            pg' = [pc |-> IF should_break(key, pgIn.limit, Len(pg.items) + size)
                          THEN "return" ELSE "loop",
                   items |-> pg.items \o SubSeq(matching_items(pgIn.total),
                                               pg.last_evaluated_key + 1,
                                               pg.last_evaluated_key + size),
                   last_evaluated_key |-> key,
                   pages |-> pg.pages + 1]
    /\ UNCHANGED <<notPage, pgIn, pgOut>>

\* the return after the loop
return_items(fn) ==
    /\ pgIn.fn = fn
    /\ pg.pc = "return"
    /\ pg' = [pg EXCEPT !.pc = "done"]
    /\ pgOut' = [status |-> "returned", items |-> returned_items(pg.items, pgIn.limit)]
    /\ UNCHANGED <<notPage, pgIn>>

QueryBySymbolPage == fetch_page("query_by_symbol")
QueryBySymbolReturn == return_items("query_by_symbol")
QueryByMarketStatusPage == fetch_page("query_by_market_status")
QueryByMarketStatusReturn == return_items("query_by_market_status")

NextPage ==
    \/ QueryBySymbolPage
    \/ QueryBySymbolReturn
    \/ QueryByMarketStatusPage
    \/ QueryByMarketStatusReturn

\* min(limit, total), limit 0 standing for no limit
ExpectedCount == IF pgIn.limit # 0 /\ pgIn.limit < pgIn.total THEN pgIn.limit ELSE pgIn.total

\* C33: however the store splits the result into pages, query_by_symbol and
\* query_by_market_status request pages with the returned continuation key
\* until limit items are collected or no key is returned, and return the
\* first min(limit, total) matching items in index order, none skipped or
\* duplicated; the loop ends (each page advances the key, and a query that
\* is not over can take a step).
C33_PagesFollowedToLimit ==
    /\ pg.items = SubSeq(matching_items(pgIn.total), 1, Len(pg.items))
    /\ pg.pc = "loop" =>
          /\ pg.pages = 0 \/ pg.last_evaluated_key # NoKey
          /\ pgIn.limit = 0 \/ Len(pg.items) < pgIn.limit
          /\ pg.last_evaluated_key = Len(pg.items)
    /\ pg.pages <= pgIn.total + 1
    /\ pg.pc \in {"loop", "return"} => ENABLED NextPage
    /\ pgOut.status = "returned" =>
          pgOut.items = SubSeq(matching_items(pgIn.total), 1, ExpectedCount)

\* four matching items, limit 3, served in three pages of 1, 1 and 2 items
C33_Witness ==
    /\ pgOut.status = "returned"
    /\ pgIn.total = 4 /\ pgIn.limit = 3
    /\ pg.pages = 3
    /\ Len(pg.items) = 4
    /\ pgOut.items = <<1, 2, 3>>

(***************************************************************************)
(* SwingFalconUniverseSelector._evaluate_row and _apply_fallback_metrics   *)
(* (universe/swing_falcon.py).  Metric values are exact rationals, None    *)
(* when the attribute is absent.                                           *)
(***************************************************************************)
Metrics == {"market_cap", "pe_ttm", "eps_growth_ttm_yoy", "roe_ttm", "revenue_growth_ttm_yoy", "beta_5y"}

\* bool(x) of an optional number
truthy(x) == x # None /\ x[1] # 0

\* lines 158-175: market cap, PE and ROE derived from price, EPS, net income
\* and equity when absent
derive_metrics(row, price) ==
    LET net_income == row.inc_net_income
        eps_basic == row.inc_eps_basic
        equity == row.bs_total_equity
        shares == IF truthy(eps_basic) /\ truthy(net_income)
                  THEN RDiv(net_income, eps_basic) ELSE None
        cap == IF row.market_cap = None /\ price # None /\ shares # None /\ RLt(<<0, 1>>, shares)
               THEN RMul(price, shares) ELSE row.market_cap
        pe == IF row.pe_ttm = None /\ price # None /\ truthy(eps_basic)
              THEN RDiv(price, eps_basic) ELSE row.pe_ttm
        roe == IF row.roe_ttm = None /\ net_income # None /\ truthy(equity)
               THEN RDiv(net_income, equity) ELSE row.roe_ttm
    IN  [row EXCEPT !.market_cap = cap, !.pe_ttm = pe, !.roe_ttm = roe]

\* lines 177-180: absent growth figures become 0.0
default_growth(row) ==
    [row EXCEPT !.eps_growth_ttm_yoy = IF @ = None THEN <<0, 1>> ELSE @,
                !.revenue_growth_ttm_yoy = IF @ = None THEN <<0, 1>> ELSE @]

apply_fallback_metrics(row, price) == default_growth(derive_metrics(row, price))

at_least(value, threshold) == value = None \/ RLe(threshold, value)
at_most(value, threshold) == value = None \/ RLe(value, threshold)

\* the checks dictionary of _evaluate_row
checks(enriched, filters) ==
    [ market_cap_pass |-> at_least(enriched.market_cap, filters.market_cap_min),
      pe_pass |-> at_most(enriched.pe_ttm, filters.pe_max),
      eps_growth_pass |-> at_least(enriched.eps_growth_ttm_yoy, filters.eps_growth_min),
      roe_pass |-> at_least(enriched.roe_ttm, filters.roe_min),
      revenue_growth_pass |-> at_least(enriched.revenue_growth_ttm_yoy, filters.revenue_growth_min),
      beta_pass |-> \/ enriched.beta_5y = None
                    \/ /\ filters.beta_min = None \/ RLe(filters.beta_min, enriched.beta_5y)
                       /\ filters.beta_max = None \/ RLe(enriched.beta_5y, filters.beta_max) ]

evaluate_row(row, price, filters) ==
    LET enriched == apply_fallback_metrics(row, price)
        result == checks(enriched, filters)
    IN  [ passed |-> \A c \in DOMAIN result : result[c],
          checks |-> result,
          detail |-> [m \in Metrics |-> enriched[m]] ]

\* Candidates: fundamentals as batch_get_companies returns them, the latest
\* close of the price lookup (None without a stock_data service or quotes).
SelRows ==
    [ market_cap : {None, <<5, 1>>},
      pe_ttm : {None, <<70, 1>>},
      eps_growth_ttm_yoy : {None, <<1, 1>>},
      roe_ttm : {None},
      revenue_growth_ttm_yoy : {None},
      beta_5y : {None, <<2, 1>>},
      inc_net_income : {None, <<10, 1>>},
      inc_eps_basic : {None, <<0, 1>>, <<2, 1>>},
      bs_total_equity : {None, <<0, 1>>, <<5, 1>>} ]

\* The filters dictionary: the thresholds _evaluate_row reads (absent keys
\* take the defaults 0.0, 60.0, None) and a mode entry, which it never reads.
SelFilters ==
    [ market_cap_min : {<<0, 1>>, <<20, 1>>},
      pe_max : {<<60, 1>>},
      eps_growth_min : {<<0, 1>>, <<1, 2>>},
      roe_min : {<<0, 1>>},
      revenue_growth_min : {<<0, 1>>},
      beta_min : {None, <<1, 1>>},
      beta_max : {None},
      mode : {"permissive", "strict"} ]

SelNotEvaluated == [status |-> "pending"]

InitSel ==
    /\ selIn \in [row : SelRows, price : {None, <<3, 1>>}, filters : SelFilters]
    /\ selOut = SelNotEvaluated

IdleSel ==
    /\ selIn = [row |-> None]
    /\ selOut = SelNotEvaluated

SelEvaluateRow ==
    /\ selIn.row # None
    /\ selOut = SelNotEvaluated
    /\ selOut' = [status |-> "evaluated",
                  result |-> evaluate_row(selIn.row, selIn.price, selIn.filters)]
    /\ UNCHANGED <<notSel, selIn>>

NextSel == SelEvaluateRow

CheckOf ==
    [ m \in Metrics |->
        CASE m = "market_cap" -> "market_cap_pass"
          [] m = "pe_ttm" -> "pe_pass"
          [] m = "eps_growth_ttm_yoy" -> "eps_growth_pass"
          [] m = "roe_ttm" -> "roe_pass"
          [] m = "revenue_growth_ttm_yoy" -> "revenue_growth_pass"
          [] m = "beta_5y" -> "beta_pass" ]

\* a metric absent from the fundamentals that price, EPS, net income and
\* equity could not supply
StillMissing(m) == derive_metrics(selIn.row, selIn.price)[m] = None

\* C34: the selector's configuration switches between a permissive and a
\* strict mode; in permissive mode a metric still missing after derivation
\* passes its check whatever the threshold, in strict mode it fails it.
C34_MissingMetricByMode ==
    selOut.status = "evaluated" =>
        \A m \in Metrics :
            StillMissing(m) =>
                /\ selIn.filters.mode = "permissive" => selOut.result.checks[CheckOf[m]]
                /\ selIn.filters.mode = "strict" => ~selOut.result.checks[CheckOf[m]]

(***************************************************************************)
(* The thread pool of the CN quote-sync handler (sync_cn_stocks.py,        *)
(* lines 123-142).  Time is in the ticks of the fetch gate (Gap ticks =    *)
(* 1/RPS); the jitter uniform(0.05, 0.25) is shorter than one tick, so a   *)
(* sleeping worker wakes within the current tick or the next.              *)
(***************************************************************************)
\* Bounds of the pool model: workers (max_concurrency), plans, clock.
MaxConcurrency == 2
MaxPlans == 3
MaxCnClock == 3

CnWorkers == 1..MaxConcurrency

JitterTicks == {0, 1}

InitCn ==
    /\ \E plans \in 1..MaxPlans :
          cn = [clock |-> 0, pending |-> plans,
                pc |-> [w \in CnWorkers |-> "idle"],
                wake |-> [w \in CnWorkers |-> 0]]
    /\ cnFetches = <<>>

IdleCn ==
    /\ cn = [clock |-> 0, pending |-> 0,
             pc |-> [w \in CnWorkers |-> "off"],
             wake |-> [w \in CnWorkers |-> 0]]
    /\ cnFetches = <<>>

CnTick ==
    /\ \E w \in CnWorkers : cn.pc[w] # "off"
    /\ cn.clock < MaxCnClock
    /\ cn' = [cn EXCEPT !.clock = @ + 1]
    /\ UNCHANGED <<notCn, cnFetches>>

\* a free worker takes the next submitted plan; _process starts with
\* time.sleep(random.uniform(0.05, 0.25))
CnProcessSleep(w) ==
    /\ cn.pc[w] = "idle"
    /\ cn.pending > 0
    /\ \E jitter \in JitterTicks :
          cn' = [cn EXCEPT !.pending = @ - 1, !.pc[w] = "sleep", !.wake[w] = cn.clock + jitter]
    /\ UNCHANGED <<notCn, cnFetches>>

\* df_local = build_cn_stock_quotes_df(sym, start=start, end=today): the
\* upstream request leaves as soon as the sleep is over
CnProcessFetch(w) ==
    /\ cn.pc[w] = "sleep"
    /\ cn.clock >= cn.wake[w]
    /\ cn' = [cn EXCEPT !.pc[w] = "fetch"]
    /\ cnFetches' = Append(cnFetches, <<w, cn.clock>>)
    /\ UNCHANGED notCn

\* the frame is upserted (or found empty) and the worker is free again
CnProcessUpsert(w) ==
    /\ cn.pc[w] = "fetch"
    /\ cn' = [cn EXCEPT !.pc[w] = "idle"]
    /\ UNCHANGED <<notCn, cnFetches>>

NextCn ==
    \/ CnTick
    \/ \E w \in CnWorkers : CnProcessSleep(w)
    \/ \E w \in CnWorkers : CnProcessFetch(w)
    \/ \E w \in CnWorkers : CnProcessUpsert(w)

\* C35: every upstream fetch of an ingestion worker passes the global rate
\* gate first, so in the CN quote sync no two upstream fetches of the
\* process start less than 1/RPS (Gap ticks) apart.
C35_QuoteFetchesSpaced ==
    \A i, j \in 1..Len(cnFetches) :
        i < j => cnFetches[j][2] - cnFetches[i][2] >= Gap

(***************************************************************************)
(* Symbol normalisation of StockData: upsert_quotes_df writes under        *)
(* str(symbol).strip(), get_latest_quote_date reads under symbol.strip(),  *)
(* get_quotes_df reads under str(symbol).strip().upper().                  *)
(***************************************************************************)
\* Bound of the model: writes under the symbol.
MaxSymWrites == 2

\* symbol strings in upper, lower and mixed case, with and without blanks
SymStrings ==
    { <<"X">>, <<" ", "X", " ">>, <<"x">>, <<"x", " ">>, <<"X", "y">>, <<"Y">> }

\* StockData.get_quotes_df(symbol, start_date, end_date): the rows of the
\* frame, ascending by date
get_quotes_df(t, symbol, start_date, end_date) ==
    LET symbol_norm == Upper(Strip(symbol))
        items == query_by_symbol(t, make_gsi1pk_symbol(symbol_norm), ENTITY_QUOTE, 0, TRUE)
        kept == SelectSeq(items, LAMBDA item :
                    /\ start_date = None \/ ParseIso(item.date) >= start_date
                    /\ end_date = None \/ ParseIso(item.date) <= end_date)
    IN  [i \in 1..Len(kept) |->
            [date |-> ParseIso(kept[i].date), symbol |-> symbol_norm, close |-> kept[i].close]]

SymNotRead == [status |-> "pending"]

InitSym ==
    /\ symIn \in SymStrings
    /\ symSt = [table |-> {}, writes |-> 0]
    /\ symOut = [latest |-> SymNotRead, quotes |-> SymNotRead]

IdleSym ==
    /\ symIn = None
    /\ symSt = [table |-> {}, writes |-> 0]
    /\ symOut = [latest |-> SymNotRead, quotes |-> SymNotRead]

\* upsert_quotes_df of a one-row frame whose symbol column holds S
SymUpsertQuotes ==
    /\ symIn # None
    /\ symSt.writes < MaxSymWrites
    /\ \E d \in StoreDates, close \in Closes :
          symSt' = [table |-> store_put(symSt.table,
                                        quote_item([symbol |-> symIn, date |-> d, close |-> close])),
                    writes |-> symSt.writes + 1]
    /\ UNCHANGED <<notSym, symIn, symOut>>

\* get_latest_quote_date(S)
SymLatestQuoteDate ==
    /\ symIn # None
    /\ symOut' = [symOut EXCEPT !.latest = [status |-> "returned", from |-> symSt.table,
                                            result |-> get_latest_quote_date(symSt.table, symIn)]]
    /\ UNCHANGED <<notSym, symIn, symSt>>

\* get_quotes_df(S)
SymGetQuotes ==
    /\ symIn # None
    /\ symOut' = [symOut EXCEPT !.quotes = [status |-> "returned", from |-> symSt.table,
                                            result |-> get_quotes_df(symSt.table, symIn, None, None)]]
    /\ UNCHANGED <<notSym, symIn, symSt>>

NextSym == SymUpsertQuotes \/ SymLatestQuoteDate \/ SymGetQuotes

\* the stored rows as <<date, close>> pairs
StoredQuotes(t) == { <<it.date, it.close>> : it \in t }

\* C40: for every symbol string S, the rows written by upsert_quotes_df
\* under S are the rows get_latest_quote_date(S) and get_quotes_df(S) find,
\* whatever the letter case or surrounding blanks of S: the three paths
\* derive the same SYMBOL#<sym> partition key.
C40_SameKeyOnAllPaths ==
    /\ symOut.latest.status = "returned" =>
          /\ symOut.latest.result = None <=> symOut.latest.from = {}
          /\ symOut.latest.result # None =>
                /\ \E it \in symOut.latest.from : it.date = symOut.latest.result
                /\ \A it \in symOut.latest.from :
                      ParseIso(it.date) <= ParseIso(symOut.latest.result)
    /\ symOut.quotes.status = "returned" =>
          { <<isoformat(symOut.quotes.result[i].date), symOut.quotes.result[i].close>> :
                i \in 1..Len(symOut.quotes.result) } = StoredQuotes(symOut.quotes.from)

(***************************************************************************)
(* Specifications.                                                         *)
(***************************************************************************)
GateInit == InitGate /\ IdleStore /\ IdleShard /\ IdlePlan /\ IdleIdx /\ IdleChain /\ IdleHist /\ IdleComp /\ IdleBt /\ IdleUni /\ IdleScore /\ IdleRun /\ IdleQuote /\ IdleMark /\ IdleYf /\ IdlePage /\ IdleSel /\ IdleCn /\ IdleSym
StoreInit == IdleGate /\ InitStore /\ IdleShard /\ IdlePlan /\ IdleIdx /\ IdleChain /\ IdleHist /\ IdleComp /\ IdleBt /\ IdleUni /\ IdleScore /\ IdleRun /\ IdleQuote /\ IdleMark /\ IdleYf /\ IdlePage /\ IdleSel /\ IdleCn /\ IdleSym
ShardInit == IdleGate /\ IdleStore /\ InitShard /\ IdlePlan /\ IdleIdx /\ IdleChain /\ IdleHist /\ IdleComp /\ IdleBt /\ IdleUni /\ IdleScore /\ IdleRun /\ IdleQuote /\ IdleMark /\ IdleYf /\ IdlePage /\ IdleSel /\ IdleCn /\ IdleSym
PlanInit == IdleGate /\ IdleStore /\ IdleShard /\ InitPlan /\ IdleIdx /\ IdleChain /\ IdleHist /\ IdleComp /\ IdleBt /\ IdleUni /\ IdleScore /\ IdleRun /\ IdleQuote /\ IdleMark /\ IdleYf /\ IdlePage /\ IdleSel /\ IdleCn /\ IdleSym
IdxInit == IdleGate /\ IdleStore /\ IdleShard /\ IdlePlan /\ InitIdx /\ IdleChain /\ IdleHist /\ IdleComp /\ IdleBt /\ IdleUni /\ IdleScore /\ IdleRun /\ IdleQuote /\ IdleMark /\ IdleYf /\ IdlePage /\ IdleSel /\ IdleCn /\ IdleSym
ChainInit == IdleGate /\ IdleStore /\ IdleShard /\ IdlePlan /\ IdleIdx /\ InitChain /\ IdleHist /\ IdleComp /\ IdleBt /\ IdleUni /\ IdleScore /\ IdleRun /\ IdleQuote /\ IdleMark /\ IdleYf /\ IdlePage /\ IdleSel /\ IdleCn /\ IdleSym
HistInit == IdleGate /\ IdleStore /\ IdleShard /\ IdlePlan /\ IdleIdx /\ IdleChain /\ InitHist /\ IdleComp /\ IdleBt /\ IdleUni /\ IdleScore /\ IdleRun /\ IdleQuote /\ IdleMark /\ IdleYf /\ IdlePage /\ IdleSel /\ IdleCn /\ IdleSym
CompInit == IdleGate /\ IdleStore /\ IdleShard /\ IdlePlan /\ IdleIdx /\ IdleChain /\ IdleHist /\ InitComp /\ IdleBt /\ IdleUni /\ IdleScore /\ IdleRun /\ IdleQuote /\ IdleMark /\ IdleYf /\ IdlePage /\ IdleSel /\ IdleCn /\ IdleSym
BtInit == IdleGate /\ IdleStore /\ IdleShard /\ IdlePlan /\ IdleIdx /\ IdleChain /\ IdleHist /\ IdleComp /\ InitBt /\ IdleUni /\ IdleScore /\ IdleRun /\ IdleQuote /\ IdleMark /\ IdleYf /\ IdlePage /\ IdleSel /\ IdleCn /\ IdleSym
UniInit == IdleGate /\ IdleStore /\ IdleShard /\ IdlePlan /\ IdleIdx /\ IdleChain /\ IdleHist /\ IdleComp /\ IdleBt /\ InitUni /\ IdleScore /\ IdleRun /\ IdleQuote /\ IdleMark /\ IdleYf /\ IdlePage /\ IdleSel /\ IdleCn /\ IdleSym
ScoreInit == IdleGate /\ IdleStore /\ IdleShard /\ IdlePlan /\ IdleIdx /\ IdleChain /\ IdleHist /\ IdleComp /\ IdleBt /\ IdleUni /\ InitScore /\ IdleRun /\ IdleQuote /\ IdleMark /\ IdleYf /\ IdlePage /\ IdleSel /\ IdleCn /\ IdleSym
RunInit == IdleGate /\ IdleStore /\ IdleShard /\ IdlePlan /\ IdleIdx /\ IdleChain /\ IdleHist /\ IdleComp /\ IdleBt /\ IdleUni /\ IdleScore /\ InitRun /\ IdleQuote /\ IdleMark /\ IdleYf /\ IdlePage /\ IdleSel /\ IdleCn /\ IdleSym
QuoteInit == IdleGate /\ IdleStore /\ IdleShard /\ IdlePlan /\ IdleIdx /\ IdleChain /\ IdleHist /\ IdleComp /\ IdleBt /\ IdleUni /\ IdleScore /\ IdleRun /\ InitQuote /\ IdleMark /\ IdleYf /\ IdlePage /\ IdleSel /\ IdleCn /\ IdleSym
MarkInit == IdleGate /\ IdleStore /\ IdleShard /\ IdlePlan /\ IdleIdx /\ IdleChain /\ IdleHist /\ IdleComp /\ IdleBt /\ IdleUni /\ IdleScore /\ IdleRun /\ IdleQuote /\ InitMark /\ IdleYf /\ IdlePage /\ IdleSel /\ IdleCn /\ IdleSym
YfInit == IdleGate /\ IdleStore /\ IdleShard /\ IdlePlan /\ IdleIdx /\ IdleChain /\ IdleHist /\ IdleComp /\ IdleBt /\ IdleUni /\ IdleScore /\ IdleRun /\ IdleQuote /\ IdleMark /\ InitYf /\ IdlePage /\ IdleSel /\ IdleCn /\ IdleSym
PageInit == IdleGate /\ IdleStore /\ IdleShard /\ IdlePlan /\ IdleIdx /\ IdleChain /\ IdleHist /\ IdleComp /\ IdleBt /\ IdleUni /\ IdleScore /\ IdleRun /\ IdleQuote /\ IdleMark /\ IdleYf /\ InitPage /\ IdleSel /\ IdleCn /\ IdleSym
SelInit == IdleGate /\ IdleStore /\ IdleShard /\ IdlePlan /\ IdleIdx /\ IdleChain /\ IdleHist /\ IdleComp /\ IdleBt /\ IdleUni /\ IdleScore /\ IdleRun /\ IdleQuote /\ IdleMark /\ IdleYf /\ IdlePage /\ InitSel /\ IdleCn /\ IdleSym
CnInit == IdleGate /\ IdleStore /\ IdleShard /\ IdlePlan /\ IdleIdx /\ IdleChain /\ IdleHist /\ IdleComp /\ IdleBt /\ IdleUni /\ IdleScore /\ IdleRun /\ IdleQuote /\ IdleMark /\ IdleYf /\ IdlePage /\ IdleSel /\ InitCn /\ IdleSym
SymInit == IdleGate /\ IdleStore /\ IdleShard /\ IdlePlan /\ IdleIdx /\ IdleChain /\ IdleHist /\ IdleComp /\ IdleBt /\ IdleUni /\ IdleScore /\ IdleRun /\ IdleQuote /\ IdleMark /\ IdleYf /\ IdlePage /\ IdleSel /\ IdleCn /\ InitSym

SpecGate == GateInit /\ [][NextGate]_vars
SpecStore == StoreInit /\ [][NextStore]_vars
SpecShard == ShardInit /\ [][NextShard]_vars
SpecPlan == PlanInit /\ [][NextPlan]_vars
SpecIdx == IdxInit /\ [][NextIdx]_vars
SpecChain == ChainInit /\ [][NextChain]_vars
SpecHist == HistInit /\ [][NextHist]_vars
SpecComp == CompInit /\ [][NextComp]_vars
SpecBt == BtInit /\ [][NextBt]_vars
SpecUni == UniInit /\ [][NextUni]_vars
SpecScore == ScoreInit /\ [][NextScore]_vars
SpecRun == RunInit /\ [][NextRun]_vars
SpecQuote == QuoteInit /\ [][NextQuote]_vars
SpecMark == MarkInit /\ [][NextMark]_vars
SpecYf == YfInit /\ [][NextYf]_vars
SpecPage == PageInit /\ [][NextPage]_vars
SpecSel == SelInit /\ [][NextSel]_vars
SpecCn == CnInit /\ [][NextCn]_vars
SpecSym == SymInit /\ [][NextSym]_vars

Init == InitGate /\ InitStore /\ InitShard /\ InitPlan /\ InitIdx /\ InitChain /\ InitHist /\ InitComp /\ InitBt /\ InitUni /\ InitScore /\ InitRun /\ InitQuote /\ InitMark /\ InitYf /\ InitPage /\ InitSel /\ InitCn /\ InitSym
Next == NextGate \/ NextStore \/ NextShard \/ NextPlan \/ NextIdx \/ NextChain \/ NextHist \/ NextComp \/ NextBt \/ NextUni \/ NextScore \/ NextRun \/ NextQuote \/ NextMark \/ NextYf \/ NextPage \/ NextSel \/ NextCn \/ NextSym
Spec == Init /\ [][Next]_vars
====
